---- MODULE Spec2Model ----
(***************************************************************************)
(* Model of the ai-edit unified-diff engine (ai_edit/utils/diff.py) and    *)
(* of the code that wraps it.                                              *)
(*                                                                         *)
(* A text (a Python str) is a sequence of characters; a character is a     *)
(* one-character string.  Python indices are kept 0-based as in the code:  *)
(* element k of a Python list l is l[k + 1] here.                          *)
(***************************************************************************)
EXTENDS Integers, Sequences, FiniteSets, TLC

----------------------------------------------------------------------------
(* Bounds of the model *)

\* most lines of an original / modified text of the round trip
MaxLines == 3
\* most lines of the original text a hand-written diff is applied to
MaxOrigLines == 2
\* most lines of a hand-written diff
MaxDiffLines == 3

----------------------------------------------------------------------------
(* Characters and strings *)

LF == "\n"
CR == "\r"
TAB == "\t"

\* characters at which str.splitlines breaks a line (besides the pair CR LF)
LineBreaks == {LF, CR, "\f"}

\* characters \s of the hunk-header pattern can match inside one diff line
WhiteSpace == {" ", TAB}

Digits == <<"0", "1", "2", "3", "4", "5", "6", "7", "8", "9">>

IsDigit(c) == \E d \in 1..10 : Digits[d] = c

DigitValue(c) == (CHOOSE d \in 1..10 : Digits[d] = c) - 1

Max(x, y) == IF x >= y THEN x ELSE y

Min(x, y) == IF x <= y THEN x ELSE y

\* l[lo:hi] of Python (0-based, hi exclusive, clipped to the list)
Slice(l, lo, hi) == SubSeq(l, Max(lo, 0) + 1, Min(hi, Len(l)))

\* s.startswith(p)
StartsWith(s, p) == Len(s) >= Len(p) /\ SubSeq(s, 1, Len(p)) = p

\* s.endswith(p)
EndsWith(s, p) == Len(s) >= Len(p) /\ SubSeq(s, Len(s) - Len(p) + 1, Len(s)) = p

\* "".join(parts)
RECURSIVE Concat(_)
Concat(parts) ==
    IF parts = <<>> THEN <<>> ELSE Head(parts) \o Concat(Tail(parts))

\* sep.join(parts)
RECURSIVE JoinWith(_, _)
JoinWith(sep, parts) ==
    IF parts = <<>> THEN <<>>
    ELSE IF Len(parts) = 1 THEN Head(parts)
    ELSE Head(parts) \o sep \o JoinWith(sep, Tail(parts))

\* position (1-based) of the first line-break character of s at or after p,
\* or Len(s) + 1 when there is none
BreakAt(s, p) ==
    IF \E q \in p..Len(s) : s[q] \in LineBreaks
    THEN CHOOSE q \in p..Len(s) :
             s[q] \in LineBreaks /\ \A r \in p..(q - 1) : s[r] \notin LineBreaks
    ELSE Len(s) + 1

\* the lines str.splitlines cuts from s from position p (1-based) onward;
\* a CR LF pair is one terminator
RECURSIVE SplitFrom(_, _, _)
SplitFrom(s, p, keepends) ==
    IF p > Len(s) THEN <<>>
    ELSE LET q == BreakAt(s, p)
             e == IF q < Len(s) /\ s[q] = CR /\ s[q + 1] = LF THEN q + 1 ELSE q
         IN  IF q > Len(s) THEN <<SubSeq(s, p, Len(s))>>
             ELSE <<SubSeq(s, p, IF keepends THEN e ELSE q - 1)>>
                      \o SplitFrom(s, e + 1, keepends)

\* s.splitlines(keepends=keepends)
splitlines(s, keepends) == SplitFrom(s, 1, keepends)

\* '{}'.format(n) for an int n >= 0
RECURSIVE Decimal(_)
Decimal(n) ==
    IF n < 10 THEN <<Digits[n + 1]>>
    ELSE Append(Decimal(n \div 10), Digits[(n % 10) + 1])

\* int(ds) for a string of decimal digits
RECURSIVE ParseInt(_)
ParseInt(ds) ==
    IF ds = <<>> THEN 0
    ELSE 10 * ParseInt(SubSeq(ds, 1, Len(ds) - 1)) + DigitValue(ds[Len(ds)])

----------------------------------------------------------------------------
(* The hunk-header pattern _UNIFIED_HUNK_RE, matched at the start of a line *)

\* end (exclusive, 1-based) of the longest run of digits starting at p
RECURSIVE DigitsEnd(_, _)
DigitsEnd(s, p) ==
    IF p <= Len(s) /\ IsDigit(s[p]) THEN DigitsEnd(s, p + 1) ELSE p

\* position after (?:,\d+)? tried at p
OptCountEnd(s, p) ==
    IF p <= Len(s) /\ s[p] = "," /\ DigitsEnd(s, p + 1) > p + 1
    THEN DigitsEnd(s, p + 1) ELSE p

\* position after SIGN \d+ (?:,\d+)? \s tried at p, or 0 when it does not match
RangeEnd(s, p, sign) ==
    IF ~(p <= Len(s) /\ s[p] = sign) THEN 0
    ELSE LET e == DigitsEnd(s, p + 1)
             f == OptCountEnd(s, e)
         IN  IF e = p + 1 THEN 0
             ELSE IF f <= Len(s) /\ s[f] \in WhiteSpace THEN f + 1 ELSE 0

\* _UNIFIED_HUNK_RE.match(line): matched, and the groups the code reads
HunkMatch(line) ==
    LET r1 == IF StartsWith(line, <<"@", "@">>) /\ Len(line) >= 3
                   /\ line[3] \in WhiteSpace
              THEN RangeEnd(line, 4, "-") ELSE 0
        r2 == IF r1 = 0 THEN 0 ELSE RangeEnd(line, r1, "+")
        ok == r2 # 0 /\ Len(line) >= r2 + 1 /\ line[r2] = "@" /\ line[r2 + 1] = "@"
    IN  [matched |-> ok,
         orig_start |-> IF ok THEN ParseInt(SubSeq(line, 5, DigitsEnd(line, 5) - 1))
                        ELSE 0,
         mod_start |-> IF ok THEN ParseInt(SubSeq(line, r1 + 1, DigitsEnd(line, r1 + 1) - 1))
                       ELSE 0]

----------------------------------------------------------------------------
(* difflib.unified_diff as generate_diff calls it: SequenceMatcher without  *)
(* a junk test (texts are far below the 200 lines of the autojunk           *)
(* heuristic), n = 3 lines of context, lineterm = "".  a and b are lists of *)
(* lines, indexed from 0.                                                   *)

\* lines of context around a change (the default n of unified_diff)
ContextLines == 3

\* length of the common run of a and b that ends at a[i], b[j] inside the
\* window starting at alo, blo (j2len[j] of find_longest_match)
RECURSIVE RunLen(_, _, _, _, _, _)
RunLen(a, b, i, j, alo, blo) ==
    IF i < alo \/ j < blo THEN 0
    ELSE IF a[i + 1] # b[j + 1] THEN 0
    ELSE 1 + RunLen(a, b, i - 1, j - 1, alo, blo)

\* the inner loop of find_longest_match for one i, over j in blo..bhi-1 from
\* j onward; best is <<besti, bestj, bestsize>>
RECURSIVE LongestInRow(_, _, _, _, _, _, _, _)
LongestInRow(a, b, alo, blo, bhi, i, j, best) ==
    IF j >= bhi THEN best
    ELSE LET k == RunLen(a, b, i, j, alo, blo)
         IN  IF k > best[3]
             THEN LongestInRow(a, b, alo, blo, bhi, i, j + 1, <<i - k + 1, j - k + 1, k>>)
             ELSE LongestInRow(a, b, alo, blo, bhi, i, j + 1, best)

\* the outer loop of find_longest_match over i in alo..ahi-1 from i onward
RECURSIVE LongestScan(_, _, _, _, _, _, _, _)
LongestScan(a, b, alo, ahi, blo, bhi, i, best) ==
    IF i >= ahi THEN best
    ELSE LongestScan(a, b, alo, ahi, blo, bhi, i + 1,
                     LongestInRow(a, b, alo, blo, bhi, i, blo, best))

find_longest_match(a, b, alo, ahi, blo, bhi) ==
    LongestScan(a, b, alo, ahi, blo, bhi, alo, <<alo, blo, 0>>)

\* the matching blocks of a[alo:ahi], b[blo:bhi] in sorted order
RECURSIVE MatchingBlocksIn(_, _, _, _, _, _)
MatchingBlocksIn(a, b, alo, ahi, blo, bhi) ==
    LET x == find_longest_match(a, b, alo, ahi, blo, bhi)
        i == x[1]
        j == x[2]
        k == x[3]
    IN  IF k = 0 THEN <<>>
        ELSE (IF alo < i /\ blo < j
              THEN MatchingBlocksIn(a, b, alo, i, blo, j) ELSE <<>>)
             \o <<x>>
             \o (IF i + k < ahi /\ j + k < bhi
                 THEN MatchingBlocksIn(a, b, i + k, ahi, j + k, bhi) ELSE <<>>)

\* collapse adjacent blocks: cur is the block <<i1, j1, k1>> compared against
RECURSIVE CollapseAdjacent(_, _)
CollapseAdjacent(blocks, cur) ==
    IF blocks = <<>> THEN (IF cur[3] # 0 THEN <<cur>> ELSE <<>>)
    ELSE LET nxt == Head(blocks)
         IN  IF cur[1] + cur[3] = nxt[1] /\ cur[2] + cur[3] = nxt[2]
             THEN CollapseAdjacent(Tail(blocks), <<cur[1], cur[2], cur[3] + nxt[3]>>)
             ELSE (IF cur[3] # 0 THEN <<cur>> ELSE <<>>)
                  \o CollapseAdjacent(Tail(blocks), nxt)

get_matching_blocks(a, b) ==
    Append(CollapseAdjacent(MatchingBlocksIn(a, b, 0, Len(a), 0, Len(b)), <<0, 0, 0>>),
           <<Len(a), Len(b), 0>>)

\* get_opcodes: the loop over the matching blocks, from positions i, j
RECURSIVE OpcodesFrom(_, _, _)
OpcodesFrom(blocks, i, j) ==
    IF blocks = <<>> THEN <<>>
    ELSE LET ai == Head(blocks)[1]
             bj == Head(blocks)[2]
             size == Head(blocks)[3]
             tag == IF i < ai /\ j < bj THEN "replace"
                    ELSE IF i < ai THEN "delete"
                    ELSE IF j < bj THEN "insert"
                    ELSE ""
         IN  (IF tag # "" THEN <<<<tag, i, ai, j, bj>>>> ELSE <<>>)
             \o (IF size # 0 THEN <<<<"equal", ai, ai + size, bj, bj + size>>>> ELSE <<>>)
             \o OpcodesFrom(Tail(blocks), ai + size, bj + size)

get_opcodes(a, b) == OpcodesFrom(get_matching_blocks(a, b), 0, 0)

\* the fix-up of the first and the last opcode in get_grouped_opcodes
FixupCodes(codes0) ==
    LET n == ContextLines
        codes == IF codes0 = <<>> THEN <<<<"equal", 0, 1, 0, 1>>>> ELSE codes0
        f == codes[1]
        c1 == IF f[1] = "equal"
              THEN [codes EXCEPT ![1] =
                       <<f[1], Max(f[2], f[3] - n), f[3], Max(f[4], f[5] - n), f[5]>>]
              ELSE codes
        l == c1[Len(c1)]
    IN  IF l[1] = "equal"
        THEN [c1 EXCEPT ![Len(c1)] =
                 <<l[1], l[2], Min(l[3], l[2] + n), l[4], Min(l[5], l[4] + n)>>]
        ELSE c1

\* the grouping loop of get_grouped_opcodes; group is the group being built
RECURSIVE GroupLoop(_, _)
GroupLoop(codes, group) ==
    LET n == ContextLines IN
    IF codes = <<>>
    THEN IF group # <<>> /\ ~(Len(group) = 1 /\ group[1][1] = "equal")
         THEN <<group>> ELSE <<>>
    ELSE LET c == Head(codes)
         IN  IF c[1] = "equal" /\ c[3] - c[2] > n + n
             THEN <<Append(group, <<c[1], c[2], Min(c[3], c[2] + n),
                                    c[4], Min(c[5], c[4] + n)>>)>>
                  \o GroupLoop(Tail(codes),
                               <<<<c[1], Max(c[2], c[3] - n), c[3],
                                   Max(c[4], c[5] - n), c[5]>>>>)
             ELSE GroupLoop(Tail(codes), Append(group, c))

get_grouped_opcodes(a, b) == GroupLoop(FixupCodes(get_opcodes(a, b)), <<>>)

_format_range_unified(start, stop) ==
    LET beginning == start + 1
        length == stop - start
    IN  IF length = 1 THEN Decimal(beginning)
        ELSE Decimal(IF length = 0 THEN beginning - 1 ELSE beginning)
                 \o <<",">> \o Decimal(length)

\* every line of lines with the one-character tag put in front
Tagged(tag, lines) == [k \in 1..Len(lines) |-> <<tag>> \o lines[k]]

\* the body lines unified_diff yields for the opcodes of one group
RECURSIVE GroupBody(_, _, _)
GroupBody(a, b, group) ==
    IF group = <<>> THEN <<>>
    ELSE LET c == Head(group)
         IN  (IF c[1] = "equal" THEN Tagged(" ", Slice(a, c[2], c[3]))
              ELSE (IF c[1] \in {"replace", "delete"}
                    THEN Tagged("-", Slice(a, c[2], c[3])) ELSE <<>>)
                   \o (IF c[1] \in {"replace", "insert"}
                       THEN Tagged("+", Slice(b, c[4], c[5])) ELSE <<>>))
             \o GroupBody(a, b, Tail(group))

\* the hunk header and body unified_diff yields for each group
RECURSIVE HunksOf(_, _, _)
HunksOf(a, b, groups) ==
    IF groups = <<>> THEN <<>>
    ELSE LET group == Head(groups)
             first == group[1]
             last == group[Len(group)]
         IN  <<<<"@", "@", " ", "-">> \o _format_range_unified(first[2], last[3])
                   \o <<" ", "+">> \o _format_range_unified(first[4], last[5])
                   \o <<" ", "@", "@">>>>
             \o GroupBody(a, b, group)
             \o HunksOf(a, b, Tail(groups))

\* list(difflib.unified_diff(a, b, fromfile="original", tofile="modified",
\*                           lineterm=""))
unified_diff(a, b) ==
    LET groups == get_grouped_opcodes(a, b)
    IN  IF groups = <<>> THEN <<>>
        ELSE << <<"-", "-", "-", " ", "o", "r", "i", "g", "i", "n", "a", "l">>,
                <<"+", "+", "+", " ", "m", "o", "d", "i", "f", "i", "e", "d">> >>
             \o HunksOf(a, b, groups)

----------------------------------------------------------------------------
(* generate_diff *)

generate_diff(original, modified) ==
    LET original_lines == splitlines(original, TRUE)
        modified_lines == splitlines(modified, TRUE)
        diff_iter == unified_diff(original_lines, modified_lines)
    IN  JoinWith(<<LF>>, diff_iter)
            \o (IF original_lines # <<>> \/ modified_lines # <<>> THEN <<LF>> ELSE <<>>)

----------------------------------------------------------------------------
(* apply_diff, one loop iteration at a time.  A frame holds the locals of   *)
(* one call; pc is the loop the call is in.                                 *)

NoExc == [type |-> "", msg |-> ""]

UnexpectedContent == [type |-> "ValueError", msg |-> "Unexpected diff content"]

MalformedHunkHeader == [type |-> "ValueError", msg |-> "Malformed hunk header"]

ContextOutOfRange ==
    [type |-> "ValueError", msg |-> "Diff context out of range of original content"]

UnknownDiffMarker == [type |-> "ValueError", msg |-> "Unknown diff mark"]

\* src[current_index] of _copy_until with current_index = len(src)
ListIndexError == [type |-> "IndexError", msg |-> "list index out of range"]

IdleFrame ==
    [pc |-> "idle", original_lines |-> <<>>, patched_lines |-> <<>>,
     diff_lines |-> <<>>, i |-> 0, orig_index |-> 0, orig_start |-> 0,
     exc |-> NoExc, result |-> <<>>]

\* apply_diff_enter that splits the original without keeping the line ends and
\* puts "\n" behind every line
apply_diff_enter_NormalisesEnds(original, diff) ==
    [pc |-> "skip_headers",
     original_lines |-> [k \in 1..Len(splitlines(original, FALSE)) |->
                            splitlines(original, FALSE)[k] \o <<LF>>],
     patched_lines |-> <<>>,
     diff_lines |-> splitlines(diff, FALSE),
     i |-> 0, orig_index |-> 0, orig_start |-> 0,
     exc |-> NoExc, result |-> <<>>]

\* lines 102-107: the frame on entry to the header-skip loop
apply_diff_enter(original, diff) ==
    [pc |-> "skip_headers",
     original_lines |-> splitlines(original, TRUE),
     patched_lines |-> <<>>,
     diff_lines |-> splitlines(diff, FALSE),
     i |-> 0, orig_index |-> 0, orig_start |-> 0,
     exc |-> NoExc, result |-> <<>>]

Raise(f, e) == [f EXCEPT !.pc = "raised", !.exc = e]

IsFileHeader(line) ==
    StartsWith(line, <<"-", "-", "-">>) \/ StartsWith(line, <<"+", "+", "+">>)

IsHunkMarker(line) == StartsWith(line, <<"@", "@">>)

\* skip_headers_step with a header-skip loop that also skips empty lines
skip_headers_step_SkipsBlank(f) ==
    IF f.i < Len(f.diff_lines)
           /\ (IsFileHeader(f.diff_lines[f.i + 1]) \/ f.diff_lines[f.i + 1] = <<>>)
    THEN [f EXCEPT !.i = f.i + 1]
    ELSE [f EXCEPT !.pc = "hunk"]

\* skip_headers_step that skips one "---" line and one "+++" line at most
skip_headers_step_OnePair(f) ==
    IF f.i < Len(f.diff_lines) /\ f.i < 2 /\ IsFileHeader(f.diff_lines[f.i + 1])
           /\ (f.i = 1 => StartsWith(f.diff_lines[1], <<"-">>)
                             /\ StartsWith(f.diff_lines[2], <<"+">>))
    THEN [f EXCEPT !.i = f.i + 1]
    ELSE [f EXCEPT !.pc = "hunk"]

\* lines 110-113: one test of the header-skip loop
skip_headers_step(f) ==
    IF f.i < Len(f.diff_lines) /\ IsFileHeader(f.diff_lines[f.i + 1])
    THEN [f EXCEPT !.i = f.i + 1]
    ELSE [f EXCEPT !.pc = "hunk"]

\* hunk_step with the pattern tried first: a malformed "@@" line is reported
\* as unexpected content
hunk_step_PatternFirst(f) ==
    IF ~(f.i < Len(f.diff_lines)) THEN [f EXCEPT !.pc = "finish"]
    ELSE LET line == f.diff_lines[f.i + 1]
             match == HunkMatch(line)
         IN  IF ~match.matched THEN Raise(f, UnexpectedContent)
             ELSE [f EXCEPT !.orig_start = match.orig_start - 1, !.pc = "copy"]

\* hunk_step with a pattern that wants positive start lines
hunk_step_PositiveStarts(f) ==
    IF ~(f.i < Len(f.diff_lines)) THEN [f EXCEPT !.pc = "finish"]
    ELSE LET line == f.diff_lines[f.i + 1]
             match == HunkMatch(line)
         IN  IF ~IsHunkMarker(line) THEN Raise(f, UnexpectedContent)
             ELSE IF ~match.matched \/ match.orig_start = 0 \/ match.mod_start = 0
             THEN Raise(f, MalformedHunkHeader)
             ELSE [f EXCEPT !.orig_start = match.orig_start - 1, !.pc = "copy"]

\* lines 115-125: one test of the hunk loop and the parse of the header
hunk_step(f) ==
    IF ~(f.i < Len(f.diff_lines)) THEN [f EXCEPT !.pc = "finish"]
    ELSE LET line == f.diff_lines[f.i + 1]
             match == HunkMatch(line)
         IN  IF ~IsHunkMarker(line) THEN Raise(f, UnexpectedContent)
             ELSE IF ~match.matched THEN Raise(f, MalformedHunkHeader)
             ELSE [f EXCEPT !.orig_start = match.orig_start - 1, !.pc = "copy"]

\* copy_step that moves the cursor back to the start of a hunk that lies behind
\* it
copy_step_Rewinds(f) ==
    IF f.orig_index < f.orig_start
    THEN IF f.orig_index >= Len(f.original_lines) THEN Raise(f, ListIndexError)
         ELSE [f EXCEPT !.patched_lines = Append(@, f.original_lines[f.orig_index + 1]),
                        !.orig_index = f.orig_index + 1]
    ELSE [f EXCEPT !.i = f.i + 1, !.pc = "body", !.orig_index = f.orig_start]

\* lines 69-72: one test of the loop of _copy_until(original_lines,
\* patched_lines, orig_start, orig_index); on exit, line 131
copy_step(f) ==
    IF f.orig_index < f.orig_start
    THEN IF f.orig_index >= Len(f.original_lines) THEN Raise(f, ListIndexError)
         ELSE [f EXCEPT !.patched_lines = Append(@, f.original_lines[f.orig_index + 1]),
                        !.orig_index = f.orig_index + 1]
    ELSE [f EXCEPT !.i = f.i + 1, !.pc = "body"]

\* context_line emitting the text of the diff line instead of the original line
context_line_UsesDiffText(f) ==
    IF f.orig_index >= Len(f.original_lines) THEN Raise(f, ContextOutOfRange)
    ELSE [f EXCEPT !.patched_lines = Append(@, Tail(f.diff_lines[f.i + 1]) \o <<LF>>),
                   !.orig_index = f.orig_index + 1,
                   !.i = f.i + 1]

\* lines 145-149: a context line
context_line(f) ==
    IF f.orig_index >= Len(f.original_lines) THEN Raise(f, ContextOutOfRange)
    ELSE [f EXCEPT !.patched_lines = Append(@, f.original_lines[f.orig_index + 1]),
                   !.orig_index = f.orig_index + 1,
                   !.i = f.i + 1]

\* removal_line that compares the text after the mark with the original line
removal_line_ChecksText(f) ==
    IF f.orig_index < Len(f.original_lines)
           /\ ~StartsWith(f.original_lines[f.orig_index + 1], Tail(f.diff_lines[f.i + 1]))
    THEN Raise(f, ContextOutOfRange)
    ELSE [f EXCEPT !.orig_index = f.orig_index + 1, !.i = f.i + 1]

\* lines 150-152: a removal line
removal_line(f) == [f EXCEPT !.orig_index = f.orig_index + 1, !.i = f.i + 1]

\* addition_line without the newline put back after the added text
addition_line_NoNewline(f, hunk_line) ==
    [f EXCEPT !.patched_lines = Append(@, Tail(hunk_line)), !.i = f.i + 1]

\* lines 153-155: an addition line
addition_line(f, hunk_line) ==
    [f EXCEPT !.patched_lines =
                  Append(@, Tail(hunk_line)
                                \o (IF ~EndsWith(hunk_line, <<LF>>) THEN <<LF>> ELSE <<>>)),
              !.i = f.i + 1]

\* body_step skipping a line with an unknown mark like an empty line
body_step_SkipsUnknown(f) ==
    IF f.i < Len(f.diff_lines) /\ ~IsHunkMarker(f.diff_lines[f.i + 1])
    THEN LET hunk_line == f.diff_lines[f.i + 1]
         IN  IF hunk_line = <<>> THEN [f EXCEPT !.i = f.i + 1]
             ELSE IF StartsWith(hunk_line, <<" ">>) THEN context_line(f)
             ELSE IF StartsWith(hunk_line, <<"-">>) THEN removal_line(f)
             ELSE IF StartsWith(hunk_line, <<"+">>) THEN addition_line(f, hunk_line)
             ELSE [f EXCEPT !.i = f.i + 1]
    ELSE [f EXCEPT !.pc = "hunk"]

\* body_step that leaves the diff index where it is on an empty line
body_step_BlankStalls(f) ==
    IF f.i < Len(f.diff_lines) /\ ~IsHunkMarker(f.diff_lines[f.i + 1])
    THEN LET hunk_line == f.diff_lines[f.i + 1]
         IN  IF hunk_line = <<>> THEN f
             ELSE IF StartsWith(hunk_line, <<" ">>) THEN context_line(f)
             ELSE IF StartsWith(hunk_line, <<"-">>) THEN removal_line(f)
             ELSE IF StartsWith(hunk_line, <<"+">>) THEN addition_line(f, hunk_line)
             ELSE Raise(f, UnknownDiffMarker)
    ELSE [f EXCEPT !.pc = "hunk"]

\* body_step reading an empty line as a context line with empty text
body_step_BlankIsContext(f) ==
    IF f.i < Len(f.diff_lines) /\ ~IsHunkMarker(f.diff_lines[f.i + 1])
    THEN LET hunk_line == f.diff_lines[f.i + 1]
         IN  IF hunk_line = <<>> \/ StartsWith(hunk_line, <<" ">>) THEN context_line(f)
             ELSE IF StartsWith(hunk_line, <<"-">>) THEN removal_line(f)
             ELSE IF StartsWith(hunk_line, <<"+">>) THEN addition_line(f, hunk_line)
             ELSE Raise(f, UnknownDiffMarker)
    ELSE [f EXCEPT !.pc = "hunk"]

\* lines 134-158: one test of the hunk-body loop and one body line
body_step(f) ==
    IF f.i < Len(f.diff_lines) /\ ~IsHunkMarker(f.diff_lines[f.i + 1])
    THEN LET hunk_line == f.diff_lines[f.i + 1]
         IN  IF hunk_line = <<>> THEN [f EXCEPT !.i = f.i + 1]
             ELSE IF StartsWith(hunk_line, <<" ">>) THEN context_line(f)
             ELSE IF StartsWith(hunk_line, <<"-">>) THEN removal_line(f)
             ELSE IF StartsWith(hunk_line, <<"+">>) THEN addition_line(f, hunk_line)
             ELSE Raise(f, UnknownDiffMarker)
    ELSE [f EXCEPT !.pc = "hunk"]

\* lines 160-163: copy the remainder and return
finish_step(f) ==
    LET patched == f.patched_lines
                       \o Slice(f.original_lines, f.orig_index, Len(f.original_lines))
    IN  [f EXCEPT !.patched_lines = patched, !.result = Concat(patched),
                  !.pc = "returned"]

apply_diff_step(f) ==
    CASE f.pc = "skip_headers" -> skip_headers_step(f)
      [] f.pc = "hunk" -> hunk_step(f)
      [] f.pc = "copy" -> copy_step(f)
      [] f.pc = "body" -> body_step(f)
      [] f.pc = "finish" -> finish_step(f)

Finished(f) == f.pc \in {"returned", "raised"}

\* the call run to its end
RECURSIVE RunFrame(_)
RunFrame(f) == IF Finished(f) THEN f ELSE RunFrame(apply_diff_step(f))

\* the frame apply_diff(original, diff) ends in: pc is "returned" with the
\* patched text in result, or "raised" with the exception in exc
apply_diff(original, diff) == RunFrame(apply_diff_enter(original, diff))

----------------------------------------------------------------------------
(* Input texts *)

\* the line contents texts are built from
LineContents == {<<"a">>, <<"b">>}

\* the line terminators texts are built from
Terminators == {<<LF>>, <<CR, LF>>, <<"\f">>}

\* sequences over S of length 0..n
SeqsUpTo(S, n) == UNION {[1..k -> S] : k \in 0..n}

\* the text of the given line contents, each ended by term, the last one only
\* when final
TextOf(contents, term, final) ==
    Concat([k \in 1..Len(contents) |->
               contents[k] \o (IF k < Len(contents) \/ final THEN term ELSE <<>>)])

\* a run of unchanged lines long enough for unified_diff to split two hunks
PadContents == [k \in 1..(2 * ContextLines + 1) |-> <<"k">>]

\* contents with the padding run put after the first line
Padded(contents) == <<Head(contents)>> \o PadContents \o Tail(contents)

ShortTexts ==
    {TextOf(c, t, f) : c \in SeqsUpTo(LineContents, MaxLines),
                       t \in Terminators, f \in BOOLEAN}

LongTexts ==
    {TextOf(Padded(c), t, f) : c \in SeqsUpTo(LineContents, MaxLines) \ {<<>>},
                               t \in Terminators, f \in BOOLEAN}

\* the original a hand-written diff is applied to: n lines "a", "b", "a", ...
\* ended by CR LF and LF in turn, the last line ended only when final
OrigText(n, final) ==
    Concat([k \in 1..n |->
               (IF k % 2 = 1 THEN <<"a">> ELSE <<"b">>)
                   \o (IF k = n /\ ~final THEN <<>>
                       ELSE IF k % 2 = 1 THEN <<CR, LF>> ELSE <<LF>>)])

OrigTexts == {OrigText(n, f) : n \in 0..MaxOrigLines, f \in BOOLEAN}

\* "@@ -s +t @@"
HunkHeader(s, t) ==
    <<"@", "@", " ", "-">> \o Decimal(s) \o <<" ", "+">> \o Decimal(t) \o <<" ", "@", "@">>

\* "@@ -s,sc +t,tc @@"
HunkHeaderCounts(s, sc, t, tc) ==
    <<"@", "@", " ", "-">> \o Decimal(s) \o <<",">> \o Decimal(sc)
        \o <<" ", "+">> \o Decimal(t) \o <<",">> \o Decimal(tc) \o <<" ", "@", "@">>

\* the lines hand-written diffs are made of
DiffLinePool ==
    {HunkHeader(st, st) : st \in 0..(MaxOrigLines + 2)}
    \cup {HunkHeaderCounts(1, 1, 0, 0),
          <<"@", "@", " ", "b", "o", "g", "u", "s", " ", "@", "@">>,
          <<"@", "@">>,
          <<"-", "-", "-", " ", "o">>, <<"+", "+", "+", " ", "m">>,
          <<" ", "z">>, <<"-", "a">>, <<"+", "b">>, <<>>,
          <<"\\", " ", "N", "o">>}

\* each line of the diff followed by a newline
HandDiffs ==
    {Concat([k \in 1..Len(ls) |-> ls[k] \o <<LF>>]) :
         ls \in SeqsUpTo(DiffLinePool, MaxDiffLines)}

----------------------------------------------------------------------------
(* State *)

VARIABLES
    original,   \* the text to patch
    modified,   \* the text the diff is generated towards
    diff,       \* the unified diff
    stage,      \* "start", "generated" (diff is set), "applied" (the call ended)
    ad,         \* the frame of the apply_diff call
    updated,    \* the text whose formatting is reconciled with original
    formatted,  \* the text _preserve_formatting returned last
    file,       \* the file in the project directory: [exists, bytes]
    backup,     \* its copy in the backup directory: [exists, bytes]
    fm,         \* the frame of the FileManager.apply_patch call
    calls,      \* the frames of the calls that run concurrently
    cfg,        \* ConfigManager: DEFAULT_CONFIG, the config files, the environment
    ed          \* the frame of the edit command

vars == <<original, modified, diff, stage, ad, updated, formatted, file, backup, fm, calls,
          cfg, ed>>

\* no file at the path
NoFile == [exists |-> FALSE, bytes |-> <<>>]

\* the regular file with the given bytes
FileOf(bytes) == [exists |-> TRUE, bytes |-> bytes]

\* the frame of apply_patch before the first call; n counts the calls made,
\* cause is the exception of apply_diff that the IOError was raised from
FmIdle ==
    [pc |-> "idle", original |-> <<>>, patched |-> <<>>, exc |-> NoExc,
     cause |-> NoExc, n |-> 0]

\* no ConfigManager is in use
NoConfigManager == [op |-> "none"]

\* the edit command is not running
NoEdit == [pc |-> "none"]

\* the variables of the formatting pass, the file manager, the concurrent
\* calls and the command line
fmtvars == <<updated, formatted>>
fsvars == <<file, backup, fm>>
clivars == <<cfg, ed>>

\* nothing is formatted, no file exists and no call runs concurrently
OnlyDiffEngine ==
    /\ updated = <<>>
    /\ formatted = <<>>
    /\ file = NoFile
    /\ backup = NoFile
    /\ fm = FmIdle
    /\ calls = <<>>
    /\ cfg = NoConfigManager
    /\ ed = NoEdit

----------------------------------------------------------------------------
(* Round trip: generate_diff(original, modified), then apply_diff *)

InitRT ==
    /\ \E long \in BOOLEAN :
           /\ original \in (IF long THEN LongTexts ELSE ShortTexts)
           /\ modified \in (IF long THEN LongTexts ELSE ShortTexts)
    /\ diff = <<>>
    /\ stage = "start"
    /\ ad = IdleFrame
    /\ OnlyDiffEngine

GenerateDiff ==
    /\ stage = "start"
    /\ diff' = generate_diff(original, modified)
    /\ stage' = "generated"
    /\ UNCHANGED <<original, modified, ad>>
    /\ UNCHANGED <<fmtvars, fsvars, calls, clivars>>

ApplyDiff ==
    /\ stage = "generated"
    /\ ad' = apply_diff(original, diff)
    /\ stage' = "applied"
    /\ UNCHANGED <<original, modified, diff>>
    /\ UNCHANGED <<fmtvars, fsvars, calls, clivars>>

NextRT == GenerateDiff \/ ApplyDiff

SpecRT == InitRT /\ [][NextRT]_vars

----------------------------------------------------------------------------
(* apply_diff on hand-written diffs, one loop iteration per step *)

Init ==
    /\ original \in OrigTexts
    /\ diff \in HandDiffs
    /\ modified = <<>>
    /\ stage = "generated"
    /\ ad = IdleFrame
    /\ OnlyDiffEngine

\* stage once the call is in frame f
StageOf(f) == IF Finished(f) THEN "applied" ELSE "generated"

Enter ==
    /\ stage = "generated"
    /\ ad.pc = "idle"
    /\ ad' = apply_diff_enter(original, diff)
    /\ UNCHANGED <<original, modified, diff, stage>>
    /\ UNCHANGED <<fmtvars, fsvars, calls, clivars>>

SkipHeaders ==
    /\ ad.pc = "skip_headers"
    /\ ad' = skip_headers_step(ad)
    /\ stage' = StageOf(ad')
    /\ UNCHANGED <<original, modified, diff>>
    /\ UNCHANGED <<fmtvars, fsvars, calls, clivars>>

Hunk ==
    /\ ad.pc = "hunk"
    /\ ad' = hunk_step(ad)
    /\ stage' = StageOf(ad')
    /\ UNCHANGED <<original, modified, diff>>
    /\ UNCHANGED <<fmtvars, fsvars, calls, clivars>>

CopyUntil ==
    /\ ad.pc = "copy"
    /\ ad' = copy_step(ad)
    /\ stage' = StageOf(ad')
    /\ UNCHANGED <<original, modified, diff>>
    /\ UNCHANGED <<fmtvars, fsvars, calls, clivars>>

Body ==
    /\ ad.pc = "body"
    /\ ad' = body_step(ad)
    /\ stage' = StageOf(ad')
    /\ UNCHANGED <<original, modified, diff>>
    /\ UNCHANGED <<fmtvars, fsvars, calls, clivars>>

Finish ==
    /\ ad.pc = "finish"
    /\ ad' = finish_step(ad)
    /\ stage' = StageOf(ad')
    /\ UNCHANGED <<original, modified, diff>>
    /\ UNCHANGED <<fmtvars, fsvars, calls, clivars>>

Next == Enter \/ SkipHeaders \/ Hunk \/ CopyUntil \/ Body \/ Finish

Spec == Init /\ [][Next]_vars

----------------------------------------------------------------------------
(* Properties of the round trip (SpecRT) *)

\* every line of the text, the last one too, ends with "\n", and the text has
\* no other line-break character
LFTerminated(text) ==
    /\ \A k \in 1..Len(text) : text[k] \in LineBreaks => text[k] = LF
    /\ text # <<>> => text[Len(text)] = LF

\* number of hunk headers in a diff
HunkCount(d) ==
    LET ls == splitlines(d, FALSE)
    IN  Cardinality({k \in 1..Len(ls) : IsHunkMarker(ls[k])})

\* C1: for all text pairs (A, B), with no restriction on the trailing newline,
\* the line-ending style or A = B, apply_diff(A, generate_diff(A, B)) returns B.
C1_RoundTripAnyTexts ==
    stage = "applied" => (ad.pc = "returned" /\ ad.result = modified)

\* C2: for all texts A # B whose lines are all terminated by a single "\n"
\* (no "\r", no other line-break character), apply_diff(A, generate_diff(A, B))
\* returns B; also for A empty, pure additions, pure removals, mixed edits and
\* diffs of several hunks.
C2_RoundTripLFTexts ==
    (/\ stage = "applied"
     /\ original # modified
     /\ LFTerminated(original)
     /\ LFTerminated(modified))
        => (ad.pc = "returned" /\ ad.result = modified)

\* a round trip of two LF-terminated texts through a diff of two hunks that
\* removes, adds and keeps lines
C2_Witness ==
    /\ stage = "applied"
    /\ original # modified
    /\ LFTerminated(original)
    /\ LFTerminated(modified)
    /\ HunkCount(diff) = 2
    /\ Len(splitlines(original, TRUE)) > Len(splitlines(modified, TRUE))
    /\ \E k \in 1..Len(ad.diff_lines) : StartsWith(ad.diff_lines[k], <<"+", "b">>)
    /\ \E k \in 1..Len(ad.diff_lines) : StartsWith(ad.diff_lines[k], <<"-", "a">>)
    /\ \E k \in 1..Len(ad.diff_lines) : StartsWith(ad.diff_lines[k], <<" ", "k">>)
    /\ ad.pc = "returned"
    /\ ad.result = modified

\* C3: the output of generate_diff is always consumable by apply_diff: for
\* every text A, apply_diff(A, generate_diff(A, A)) raises nothing and returns A.
C3_SelfDiffIsConsumable ==
    (stage = "applied" /\ original = modified)
        => (ad.pc = "returned" /\ ad.result = original)

----------------------------------------------------------------------------
(* Properties of apply_diff on hand-written diffs (Spec) *)

\* the diff line the call is at
LineAt(f) == f.diff_lines[f.i + 1]

\* the call is about to read a hunk header
AtHeader(f) == f.pc = "hunk" /\ f.i < Len(f.diff_lines)

\* the call is about to read a line of a hunk body
AtBodyLine(f) ==
    f.pc = "body" /\ f.i < Len(f.diff_lines) /\ ~IsHunkMarker(LineAt(f))

\* the call has raised exception e
Raised(f, e) == f.pc = "raised" /\ f.exc = e

\* s[lo..hi] is a non-empty run of digits
DigitRun(s, lo, hi) == lo <= hi /\ \A k \in lo..hi : IsDigit(s[k])

\* s[lo..hi] is <int> or <int>,<int>
RangeSpec(s, lo, hi) ==
    \/ DigitRun(s, lo, hi)
    \/ \E c \in (lo + 1)..(hi - 1) :
           s[c] = "," /\ DigitRun(s, lo, c - 1) /\ DigitRun(s, c + 1, hi)

\* the line begins with "@@ -<int>[,<int>] +<int>[,<int>] @@", the blanks being
\* one white-space character each
HeaderGrammar(line) ==
    \E p, q \in 1..Len(line) :
        /\ 6 <= p /\ p + 3 <= q /\ q + 2 <= Len(line)
        /\ line[1] = "@" /\ line[2] = "@" /\ line[3] \in WhiteSpace /\ line[4] = "-"
        /\ RangeSpec(line, 5, p - 1)
        /\ line[p] \in WhiteSpace /\ line[p + 1] = "+"
        /\ RangeSpec(line, p + 2, q - 1)
        /\ line[q] \in WhiteSpace /\ line[q + 1] = "@" /\ line[q + 2] = "@"

\* the well-formed hunk headers "@@ -s[,c] +t[,d] @@" that states start s, t
HeadersStating(s, t) ==
    {HunkHeader(s, t)} \cup {HunkHeaderCounts(s, c, t, d) : c, d \in 0..1}

\* the largest start a header of DiffLinePool states
MaxStated == MaxOrigLines + 2

\* the body of the hunk whose header is line h (1-based) has a context line
HunkHasContextLine(ls, h) ==
    \E k \in (h + 1)..Len(ls) :
        /\ StartsWith(ls[k], <<" ">>)
        /\ \A m \in (h + 1)..k : ~IsHunkMarker(ls[m])

\* C4: when a hunk header states an origStart greater than
\* len(original lines) + 1 and the hunk has a context line, apply_diff fails with
\* the ContextOutOfRange patch error, the same kind of error as the others.
C4_StartBeyondEndIsContextOutOfRange ==
    \A h \in 1..Len(ad.diff_lines) :
        (/\ Finished(ad)
         /\ h <= ad.i + 1
         /\ \E s1 \in (Len(ad.original_lines) + 2)..MaxStated, t1 \in 0..MaxStated :
                ad.diff_lines[h] \in HeadersStating(s1, t1)
         /\ HunkHasContextLine(ad.diff_lines, h))
            => Raised(ad, ContextOutOfRange)

\* C5: a line starting with "@@" where a hunk header is read (first hunk or
\* after a hunk body) that does not match the header grammar makes apply_diff
\* fail with MalformedHunkHeader, whatever the original text.
C5_MalformedHeaderRaises ==
    [][(AtHeader(ad) /\ IsHunkMarker(LineAt(ad)) /\ ~HeaderGrammar(LineAt(ad)))
           => Raised(ad', MalformedHunkHeader)]_vars

\* a second header, read after the body of a first hunk, was malformed
C5_Witness ==
    /\ Raised(ad, MalformedHunkHeader)
    /\ ad.i = 2
    /\ ad.diff_lines[1] = HunkHeader(1, 1)
    /\ ad.diff_lines[2] = <<"+", "b">>
    /\ ad.diff_lines[3] = <<"@", "@">>
    /\ ad.original_lines # <<>>

\* index (1-based) of the first diff line that is not a file header, or
\* Len + 1 when all are
FirstNonHeader(ls) ==
    IF \E k \in 1..Len(ls) : ~IsFileHeader(ls[k])
    THEN CHOOSE k \in 1..Len(ls) :
             ~IsFileHeader(ls[k]) /\ \A m \in 1..(k - 1) : IsFileHeader(ls[m])
    ELSE Len(ls) + 1

\* C6: once the leading file headers are skipped, a line met outside a hunk
\* body that does not start with "@@" (an empty line and prose before the first
\* hunk too) makes apply_diff fail with UnexpectedContent.
C6_UnexpectedContentOutsideHunk ==
    /\ [](LET ls == splitlines(diff, FALSE)
              k == FirstNonHeader(ls)
          IN  (Finished(ad) /\ k <= Len(ls) /\ ~IsHunkMarker(ls[k]))
                  => Raised(ad, UnexpectedContent))
    /\ [][(AtHeader(ad) /\ ~IsHunkMarker(LineAt(ad)))
              => Raised(ad', UnexpectedContent)]_vars

\* an empty line after two file headers was met before any hunk
C6_Witness ==
    /\ Raised(ad, UnexpectedContent)
    /\ ad.i = 2
    /\ IsFileHeader(ad.diff_lines[1])
    /\ IsFileHeader(ad.diff_lines[2])
    /\ ad.diff_lines[3] = <<>>

\* a line no branch of the hunk-body loop accepts
UnknownMark(line) ==
    line # <<>> /\ ~IsHunkMarker(line) /\ line[1] \notin {" ", "-", "+"}

\* C7: inside a hunk body a non-empty line whose first character is not " ",
\* "-" or "+" (such as "\ No newline at end of file") makes apply_diff fail with
\* UnknownDiffMarker; it is never skipped nor copied into the output.
C7_UnknownMarkRaises ==
    /\ [](ad.pc = "returned"
              => LET ls == splitlines(diff, FALSE)
                 IN  \A k \in (FirstNonHeader(ls) + 1)..Len(ls) : ~UnknownMark(ls[k]))
    /\ [][(AtBodyLine(ad) /\ UnknownMark(LineAt(ad)))
              => (/\ Raised(ad', UnknownDiffMarker)
                  /\ ad'.patched_lines = ad.patched_lines
                  /\ ad'.i = ad.i)]_vars

\* a "\ No" line after an addition line of a hunk was met
C7_Witness ==
    /\ Raised(ad, UnknownDiffMarker)
    /\ ad.i = 2
    /\ ad.diff_lines[2] = <<"+", "b">>
    /\ ad.diff_lines[3] = <<"\\", " ", "N", "o">>
    /\ ad.patched_lines = <<<<"b", LF>>>>

\* the line is a well-formed hunk header whose origStart or modStart is 0
StatesZeroStart(line) ==
    \E s1, t1 \in 0..MaxStated :
        (s1 = 0 \/ t1 = 0) /\ line \in HeadersStating(s1, t1)

\* C8: a hunk header is accepted only when origStart and modStart are
\* positive; a header whose origStart or modStart is 0 fails with
\* MalformedHunkHeader.
C8_ZeroStartIsMalformed ==
    (/\ Finished(ad)
     /\ FirstNonHeader(ad.diff_lines) <= Len(ad.diff_lines)
     /\ StatesZeroStart(ad.diff_lines[FirstNonHeader(ad.diff_lines)]))
        => Raised(ad, MalformedHunkHeader)

\* C8 as amended: origStart and modStart are integers >= 0: a header whose
\* origStart or modStart is 0 is accepted, never MalformedHunkHeader, and the
\* hunk is then placed at orig_start = origStart - 1.
C8_ZeroStartIsAccepted ==
    [][(AtHeader(ad) /\ StatesZeroStart(LineAt(ad)))
           => (/\ ad'.pc = "copy"
               /\ \E s1, t1 \in 0..MaxStated :
                      /\ LineAt(ad) \in HeadersStating(s1, t1)
                      /\ ad'.orig_start = s1 - 1)]_vars

\* a call that read a header stating origStart 0 and one stating modStart 0
\* and returned a result
C8_Witness ==
    /\ ad.pc = "returned"
    /\ ad.diff_lines = <<HunkHeader(0, 0), <<"+", "b">>, HunkHeaderCounts(1, 1, 0, 0)>>
    /\ ad.original_lines # <<>>
    /\ ad.patched_lines = <<<<"b", LF>>>> \o ad.original_lines

\* C9: a removal line processed with the cursor at or past the end of the
\* original lines makes apply_diff fail with ContextOutOfRange; the cursor never
\* exceeds len(original lines) in a call that returns a result.
C9_RemovalPastEndRaises ==
    ad.pc = "returned" => ad.orig_index <= Len(ad.original_lines)

\* C10: a context line copies the original line at the cursor into the output
\* byte for byte, with its own terminator or lack of one (the text of the diff
\* line is not used), and advances the cursor by one; with the cursor at or past
\* the end of the original it fails with ContextOutOfRange instead.
C10_ContextLineCopiesOriginal ==
    [][(AtBodyLine(ad) /\ StartsWith(LineAt(ad), <<" ">>))
           => LET lines == splitlines(original, TRUE)
              IN  IF ad.orig_index < Len(lines)
                  THEN /\ ad'.pc = "body"
                       /\ Concat(ad'.patched_lines)
                              = Concat(ad.patched_lines) \o lines[ad.orig_index + 1]
                       /\ Len(ad'.patched_lines) = Len(ad.patched_lines) + 1
                       /\ ad'.orig_index = ad.orig_index + 1
                  ELSE Raised(ad', ContextOutOfRange)]_vars

\* a context line " z" has just copied the unterminated last line "b" of the
\* original, after the line "a\r\n" was copied by a context line too
C10_Witness ==
    /\ ad.pc = "body"
    /\ ad.i = 3
    /\ ad.diff_lines[2] = <<" ", "z">>
    /\ ad.diff_lines[3] = <<" ", "z">>
    /\ original = <<"a", CR, LF, "b">>
    /\ ad.patched_lines = <<<<"a", CR, LF>>, <<"b">>>>
    /\ ad.orig_index = 2

----------------------------------------------------------------------------
(* apply_diff on a diff and on a rewriting of it (SpecRel) *)

\* the most lines of a diff that is compared with a rewriting of it
MaxRelLines == 3

\* the lines the diffs to rewrite are made of
RelPool ==
    {HunkHeader(st, st) : st \in 0..(MaxOrigLines + 1)}
    \cup {<<" ", "z">>, <<"-", "a">>, <<"+", "b">>}

\* each line followed by a newline
LinesText(ls) == Concat([k \in 1..Len(ls) |-> ls[k] \o <<LF>>])

RelDiffs == {LinesText(ls) : ls \in SeqsUpTo(RelPool, MaxRelLines)}

\* line k (1-based) of the diff lines ls lies in the body of a hunk
InBody(ls, k) ==
    /\ FirstNonHeader(ls) < k
    /\ IsHunkMarker(ls[FirstNonHeader(ls)])
    /\ ~IsHunkMarker(ls[k])

\* the texts put after the mark of a context or removal line
VarTexts == {<<>>, <<"a">>, <<"-", "-">>, <<"@", "@">>}

\* the modified starts and the counts put into a hunk header
VarStarts == 0..1
VarCounts == 0..1

\* the headers that state the original start s, with any counts and any
\* modified start
HeaderVariants(s) ==
    {HunkHeader(s, t) : t \in VarStarts}
    \cup {HunkHeaderCounts(s, c, t, d) : c, d \in VarCounts, t \in VarStarts}

\* the lines that differ from line only in what lines 120-152 never read: the
\* counts and the modified start of a header, the text of a context or removal
\* line of a hunk body
LineVariants(ls, k) ==
    IF HunkMatch(ls[k]).matched THEN HeaderVariants(HunkMatch(ls[k]).orig_start)
    ELSE IF InBody(ls, k) /\ (StartsWith(ls[k], <<" ">>) \/ StartsWith(ls[k], <<"-">>))
    THEN {<<Head(ls[k])>> \o t : t \in VarTexts}
    ELSE {}

\* what the caller of apply_diff observes of the call that ended in frame f
Outcome(f) == [pc |-> f.pc, exc |-> f.exc, result |-> f.result]

InitRel ==
    /\ original \in OrigTexts
    /\ diff \in RelDiffs
    /\ modified = <<>>
    /\ stage = "generated"
    /\ ad = IdleFrame
    /\ OnlyDiffEngine

\* one line of the diff is replaced by a variant of it, and apply_diff is
\* called on the same original with the new diff
Vary ==
    /\ stage = "applied"
    /\ \E k \in 1..Len(ad.diff_lines) :
          \E v \in LineVariants(ad.diff_lines, k) \ {ad.diff_lines[k]} :
              diff' = LinesText([ad.diff_lines EXCEPT ![k] = v])
    /\ ad' = apply_diff(original, diff')
    /\ stage' = "varied"
    /\ UNCHANGED <<original, modified>>
    /\ UNCHANGED <<fmtvars, fsvars, calls, clivars>>

NextRel == ApplyDiff \/ Vary

SpecRel == InitRel /\ [][NextRel]_vars

\* C11: for a fixed original the outcome of apply_diff (the text returned or the
\* error raised) does not depend on the counts or the modified start of any
\* hunk header, nor on the text after the mark of any context or removal line
\* of a hunk body: replacing one of them leaves the outcome as it was.
C11_OutcomeIgnoresCountsAndContextText ==
    [][stage' = "varied" => Outcome(ad') = Outcome(ad)]_vars

\* the removal line "-a" was rewritten to "---" behind the header "@@ -1 +1 @@"
\* and the call still returned the original without its first line
C11_Witness ==
    /\ stage = "varied"
    /\ original = <<"a", CR, LF, "b", LF>>
    /\ ad.diff_lines = <<HunkHeader(1, 1), <<"-", "-", "-">>, <<" ", "z">>>>
    /\ ad.pc = "returned"
    /\ ad.result = <<"b", LF>>

----------------------------------------------------------------------------
(* Empty lines and leading file headers (SpecSkip) *)

\* the lines of the diffs with file headers and empty lines
SkipPool ==
    {HunkHeader(1, 1), HunkHeader(2, 2),
     <<"-", "-", "-", " ", "o">>, <<"+", "+", "+", " ", "m">>,
     <<" ", "z">>, <<"+", "b">>, <<>>}

SkipDiffs == {LinesText(ls) : ls \in SeqsUpTo(SkipPool, MaxRelLines)}

InitSkip ==
    /\ original \in OrigTexts
    /\ diff \in SkipDiffs
    /\ modified = <<>>
    /\ stage = "generated"
    /\ ad = IdleFrame
    /\ OnlyDiffEngine

\* apply_diff on these diffs, one loop iteration per step
SpecSkip == InitSkip /\ [][Next]_vars

\* the diff lines ls from line k on, without the empty lines of hunk bodies
RECURSIVE DropBodyBlanks(_, _)
DropBodyBlanks(ls, k) ==
    IF k > Len(ls) THEN <<>>
    ELSE (IF InBody(ls, k) /\ ls[k] = <<>> THEN <<>> ELSE <<ls[k]>>)
             \o DropBodyBlanks(ls, k + 1)

\* some hunk body of the diff lines ls has an empty line
HasBodyBlank(ls) == \E k \in 1..Len(ls) : InBody(ls, k) /\ ls[k] = <<>>

\* C12: an empty line inside a hunk body is skipped: the step emits nothing,
\* leaves the original cursor where it was and raises nothing; and a call on a
\* diff with empty lines in its hunk bodies ends with the outcome of the call on
\* the same diff without them, so that inserting or deleting such lines never
\* changes the outcome.
C12_BodyBlankLinesAreSkipped ==
    /\ [][(AtBodyLine(ad) /\ LineAt(ad) = <<>>) => ad' = [ad EXCEPT !.i = ad.i + 1]]_vars
    /\ [](Finished(ad) /\ HasBodyBlank(ad.diff_lines)
              => Outcome(ad) = Outcome(apply_diff(original,
                                   LinesText(DropBodyBlanks(ad.diff_lines, 1)))))

\* the call returned "b\n" + "a\r\n" on the diff "@@ -1 +1 @@", "", "+b", whose
\* empty line stands between the header and the addition
C12_Witness ==
    /\ ad.pc = "returned"
    /\ ad.diff_lines = <<HunkHeader(1, 1), <<>>, <<"+", "b">>>>
    /\ original = <<"a", CR, LF>>
    /\ ad.result = <<"b", LF, "a", CR, LF>>

\* the diff lines ls from the first line on that is not a file header
AfterFileHeaders(ls) == Slice(ls, FirstNonHeader(ls) - 1, Len(ls))

\* C13: the leading lines that start with "---" or "+++" are all discarded,
\* however many there are and in whatever order: a call on a diff that has such
\* lines in front of a rest that is empty or begins with a hunk header ends with
\* the outcome of the call on the rest alone. Behind a hunk header such a line
\* is not skipped: "---..." is a removal line that advances the cursor, and
\* "+++..." is an addition line that emits the text after its first "+".
C13_LeadingFileHeadersAreDiscarded ==
    /\ [](LET rest == AfterFileHeaders(ad.diff_lines)
          IN  (Finished(ad) /\ FirstNonHeader(ad.diff_lines) > 1
                   /\ (rest = <<>> \/ IsHunkMarker(rest[1])))
                  => Outcome(ad) = Outcome(apply_diff(original, LinesText(rest))))
    /\ [][(AtBodyLine(ad) /\ StartsWith(LineAt(ad), <<"-", "-", "-">>))
              => ad' = [ad EXCEPT !.orig_index = ad.orig_index + 1, !.i = ad.i + 1]]_vars
    /\ [][(AtBodyLine(ad) /\ StartsWith(LineAt(ad), <<"+", "+", "+">>))
              => ad' = [ad EXCEPT !.patched_lines = Append(@, Tail(LineAt(ad)) \o <<LF>>),
                                  !.i = ad.i + 1]]_vars

\* behind the leading line "--- o" the hunk "@@ -1 +1 @@" was applied, and its
\* body line "--- o" removed the only line of the original
C13_Witness ==
    /\ ad.pc = "returned"
    /\ ad.diff_lines = <<<<"-", "-", "-", " ", "o">>, HunkHeader(1, 1),
                         <<"-", "-", "-", " ", "o">>>>
    /\ original = <<"a", CR, LF>>
    /\ ad.result = <<>>

----------------------------------------------------------------------------
(* The header pair of generate_diff (SpecRT) *)

\* "--- original\n+++ modified\n"
HeaderPair ==
    <<"-", "-", "-", " ", "o", "r", "i", "g", "i", "n", "a", "l", LF,
      "+", "+", "+", " ", "m", "o", "d", "i", "f", "i", "e", "d", LF>>

\* C14: generate_diff emits the header pair "--- original", "+++ modified" in
\* front of its hunks for every pair of inputs that are not both empty, equal
\* inputs included, and returns the empty string for two empty inputs.
C14_HeaderPairAlwaysEmitted ==
    stage \in {"generated", "applied"}
        => IF original = <<>> /\ modified = <<>> THEN diff = <<>>
           ELSE StartsWith(diff, HeaderPair)

----------------------------------------------------------------------------
(* FileManager._preserve_formatting (SpecFmt) *)

\* text.count(pat): the occurrences of pat in text that do not overlap, found
\* from the left
RECURSIVE CountOf(_, _)
CountOf(text, pat) ==
    IF Len(text) < Len(pat) THEN 0
    ELSE IF StartsWith(text, pat)
    THEN 1 + CountOf(SubSeq(text, Len(pat) + 1, Len(text)), pat)
    ELSE CountOf(Tail(text), pat)

\* text.replace(old, new), for a non-empty old
RECURSIVE Replace(_, _, _)
Replace(text, old, new) ==
    IF Len(text) < Len(old) THEN text
    ELSE IF StartsWith(text, old)
    THEN new \o Replace(SubSeq(text, Len(old) + 1, Len(text)), old, new)
    ELSE <<Head(text)>> \o Replace(Tail(text), old, new)

\* lines 156-167: "\r\n" when the text has more CRLF pairs than lone LFs
_detect_line_ending(text) ==
    LET crlf == CountOf(text, <<CR, LF>>)
        lf == CountOf(text, <<LF>>) - crlf
    IN  IF crlf > lf THEN <<CR, LF>> ELSE <<LF>>

\* lines 169-195
_preserve_formatting(orig, upd) ==
    IF orig = <<>> THEN upd
    ELSE LET original_ending == _detect_line_ending(orig)
             lf_only == Replace(upd, <<CR, LF>>, <<LF>>)
             normalised == IF original_ending = <<CR, LF>>
                           THEN Replace(lf_only, <<LF>>, <<CR, LF>>)
                           ELSE lf_only
             original_has_trailing_nl == EndsWith(orig, original_ending)
             updated_has_trailing_nl == EndsWith(normalised, original_ending)
         IN  IF original_has_trailing_nl /\ ~updated_has_trailing_nl
             THEN normalised \o original_ending
             ELSE IF ~original_has_trailing_nl /\ updated_has_trailing_nl
             THEN Slice(normalised, 0, Len(normalised) - Len(original_ending))
             ELSE normalised

\* the most characters of a text given to _preserve_formatting
MaxFmtLen == 4

\* the texts over one letter, CR and LF
FmtTexts == SeqsUpTo({"a", CR, LF}, MaxFmtLen)

InitFmt ==
    /\ original \in FmtTexts
    /\ updated \in FmtTexts
    /\ formatted = <<>>
    /\ stage = "start"
    /\ modified = <<>>
    /\ diff = <<>>
    /\ ad = IdleFrame
    /\ file = NoFile
    /\ backup = NoFile
    /\ fm = FmIdle
    /\ calls = <<>>
    /\ cfg = NoConfigManager
    /\ ed = NoEdit

\* _preserve_formatting(original, updated)
PreserveFormatting ==
    /\ stage = "start"
    /\ formatted' = _preserve_formatting(original, updated)
    /\ stage' = "formatted"
    /\ UNCHANGED <<original, modified, diff, ad, updated, fsvars, calls, clivars>>

\* _preserve_formatting(original, .) on the text the first call returned
PreserveAgain ==
    /\ stage = "formatted"
    /\ formatted' = _preserve_formatting(original, formatted)
    /\ stage' = "reformatted"
    /\ UNCHANGED <<original, modified, diff, ad, updated, fsvars, calls, clivars>>

NextFmt == PreserveFormatting \/ PreserveAgain

SpecFmt == InitFmt /\ [][NextFmt]_vars

\* C15: _preserve_formatting is idempotent in its second argument: applying it
\* again with the same original to the text it returned gives that text back.
C15_FormattingIsIdempotent ==
    [][stage' = "reformatted" => formatted' = formatted]_vars

\* every line ending of the text is "\r\n", and it has one at least
UsesCRLFThroughout(text) ==
    /\ CountOf(text, <<CR, LF>>) >= 1
    /\ \A k \in 1..Len(text) :
           /\ text[k] = LF => (k > 1 /\ text[k - 1] = CR)
           /\ text[k] = CR => (k < Len(text) /\ text[k + 1] = LF)

\* the text has no "\n" that is not preceded by "\r"
NoBareLF(text) ==
    \A k \in 1..Len(text) : text[k] = LF => (k > 1 /\ text[k - 1] = CR)

\* C16: when every line ending of original is "\r\n" and updated has "\n" as
\* its only line ending, the result has no "\n" that is not preceded by "\r",
\* and it ends with "\r\n" exactly when original ends with "\r\n".
C16_CRLFStyleIsReapplied ==
    (stage = "formatted" /\ UsesCRLFThroughout(original)
         /\ CountOf(updated, <<CR>>) = 0)
        => /\ NoBareLF(formatted)
           /\ EndsWith(formatted, <<CR, LF>>) <=> EndsWith(original, <<CR, LF>>)

\* C17: for a non-empty original the result ends with a line terminator ("\n",
\* alone or as the end of "\r\n") exactly when original ends with one, whatever
\* updated is; for an empty original the result is updated unchanged.
C17_TrailingTerminatorFollowsOriginal ==
    stage = "formatted"
        => IF original = <<>> THEN formatted = updated
           ELSE EndsWith(formatted, <<LF>>) <=> EndsWith(original, <<LF>>)

\* the contents of the lines of text, split at "\r\n" and "\n"; the text
\* behind the last terminator is the last element, empty when the text ends
\* with a terminator
RECURSIVE LineContentsOf(_, _)
LineContentsOf(text, acc) ==
    IF text = <<>> THEN <<acc>>
    ELSE IF StartsWith(text, <<CR, LF>>)
    THEN <<acc>> \o LineContentsOf(SubSeq(text, 3, Len(text)), <<>>)
    ELSE IF Head(text) = LF THEN <<acc>> \o LineContentsOf(Tail(text), <<>>)
    ELSE LineContentsOf(Tail(text), Append(acc, Head(text)))

\* C18: _preserve_formatting never alters the content of a line: split at
\* "\r\n" and "\n", the result and updated have the same line contents, but for
\* one terminator at the end of the text that one has and the other lacks.
C18_LineContentsAreKept ==
    stage = "formatted"
        => LET res == LineContentsOf(formatted, <<>>)
               upd == LineContentsOf(updated, <<>>)
           IN  \/ res = upd
               \/ res = Append(upd, <<>>)
               \/ upd = Append(res, <<>>)

----------------------------------------------------------------------------
(* FileManager.apply_patch on one path (SpecFM) *)

\* os.linesep of the platform the tests run on
linesep == <<LF>>

\* f.read() of a file opened with open(path, "r"): universal newlines turn
\* "\r\n" and "\r" into "\n"
ReadText(bytes) == Replace(Replace(bytes, <<CR, LF>>, <<LF>>), <<CR>>, <<LF>>)

\* f.write(content) of a file opened with open(path, "w"): "\n" is written as
\* os.linesep
WriteText(content) == Replace(content, <<LF>>, linesep)

\* lines 50-62
get_file_contents(f) == IF ~f.exists THEN <<>> ELSE ReadText(f.bytes)

\* lines 64-76: the backup after the call; shutil.copy2 copies the bytes
create_backup(f, b) == IF ~f.exists THEN b ELSE FileOf(f.bytes)

\* line 104
FailedToApply == [type |-> "IOError", msg |-> "Failed to apply diff"]

\* apply_patch that opens the file for writing before apply_diff runs, and
\* writes the lines it has patched so far when apply_diff fails
apply_patch_WritesPartial(f, b, d, n) ==
    LET orig == get_file_contents(f)
        b2 == create_backup(f, b)
        call == apply_diff(orig, d)
        patched == _preserve_formatting(orig, call.result)
    IN  IF call.pc = "raised"
        THEN [file |-> FileOf(WriteText(Concat(call.patched_lines))), backup |-> b2,
              fm |-> [pc |-> "raised", original |-> orig, patched |-> <<>>,
                      exc |-> FailedToApply, cause |-> call.exc, n |-> n]]
        ELSE [file |-> FileOf(WriteText(patched)), backup |-> b2,
              fm |-> [pc |-> "returned", original |-> orig, patched |-> patched,
                      exc |-> NoExc, cause |-> NoExc, n |-> n]]

\* lines 81-109: the file, the backup and the frame after apply_patch(path, d)
\* on the file f with the backup b, as the n-th call
apply_patch(f, b, d, n) ==
    LET orig == get_file_contents(f)
        b2 == create_backup(f, b)
        call == apply_diff(orig, d)
        patched == _preserve_formatting(orig, call.result)
    IN  IF call.pc = "raised"
        THEN [file |-> f, backup |-> b2,
              fm |-> [pc |-> "raised", original |-> orig, patched |-> <<>>,
                      exc |-> FailedToApply, cause |-> call.exc, n |-> n]]
        ELSE [file |-> FileOf(WriteText(patched)), backup |-> b2,
              fm |-> [pc |-> "returned", original |-> orig, patched |-> patched,
                      exc |-> NoExc, cause |-> NoExc, n |-> n]]

\* the most calls of apply_patch on the path
MaxPatches == 3

\* the bytes of the file before the first call
FileTexts ==
    {<<>>, <<"a", LF>>, <<"a", CR, LF>>, <<"a", CR, LF, "b", CR, LF>>, <<"a", LF, "b">>}

\* the diffs handed to apply_patch: empty, a replacement of line 1, an
\* addition before line 1 behind file headers, a removal of line 2, and one
\* diff for each way apply_diff fails: a malformed header, content outside a
\* hunk, an unknown mark behind an addition, three context lines (more than
\* any file has), a hunk that starts at line 4
PatchDiffs ==
    {<<>>,
     LinesText(<<HunkHeader(1, 1), <<"-", "a">>, <<"+", "b">>>>),
     LinesText(<<<<"-", "-", "-", " ", "o">>, <<"+", "+", "+", " ", "m">>,
                 HunkHeader(1, 1), <<"+", "b">>>>),
     LinesText(<<HunkHeader(2, 2), <<"-", "b">>>>),
     LinesText(<<<<"@", "@">>>>),
     LinesText(<<<<" ", "z">>>>),
     LinesText(<<HunkHeader(1, 1), <<"+", "b">>, <<"\\", " ", "N", "o">>>>),
     LinesText(<<HunkHeader(1, 1), <<" ", "z">>, <<" ", "z">>, <<" ", "z">>>>),
     LinesText(<<HunkHeader(4, 4), <<"+", "b">>>>)}

InitFM ==
    /\ file \in {FileOf(t) : t \in FileTexts} \cup {NoFile}
    /\ backup = NoFile
    /\ fm = FmIdle
    /\ diff = <<>>
    /\ original = <<>>
    /\ modified = <<>>
    /\ stage = "start"
    /\ ad = IdleFrame
    /\ updated = <<>>
    /\ formatted = <<>>
    /\ calls = <<>>
    /\ cfg = NoConfigManager
    /\ ed = NoEdit

\* FileManager.apply_patch(path, d)
ApplyPatch ==
    /\ fm.n < MaxPatches
    /\ \E d \in PatchDiffs :
          LET after == apply_patch(file, backup, d, fm.n + 1)
          IN  /\ diff' = d
              /\ file' = after.file
              /\ backup' = after.backup
              /\ fm' = after.fm
    /\ UNCHANGED <<original, modified, stage, ad, fmtvars, calls, clivars>>

NextFM == ApplyPatch

SpecFM == InitFM /\ [][NextFM]_vars

\* C19: a call of apply_patch(path, diff) on an existing file with the content
\* C leaves the backup holding exactly C, the content the file had just before
\* the call, and when the call succeeds the file holds
\* _preserve_formatting(C, apply_diff(C, diff)).
C19_PatchedFileAndBackup ==
    [][(fm'.n = fm.n + 1 /\ file.exists)
           => /\ backup' = FileOf(file.bytes)
              /\ fm'.pc = "returned"
                    => /\ apply_diff(file.bytes, diff').pc = "returned"
                       /\ file' = FileOf(_preserve_formatting(file.bytes,
                                       apply_diff(file.bytes, diff').result))]_vars

----------------------------------------------------------------------------
(* Concurrent calls of the three functions (SpecConc) *)

\* the number of calls that run concurrently
MaxCalls == 2

\* a call of fn(a, b) that has not started: f is its frame, the locals of an
\* apply_diff call, or for the other two functions the value returned
Call(fn, a, b) == [fn |-> fn, a |-> a, b |-> b, f |-> IdleFrame]

\* the calls that are made
ConcCalls ==
    {Call("apply_diff", o, d) :
         o \in {OrigText(2, TRUE), <<"a">>},
         d \in {LinesText(<<HunkHeader(1, 1), <<"-", "a">>, <<"+", "b">>, <<" ", "z">>>>),
                LinesText(<<HunkHeader(2, 2), <<"+", "b">>, <<"@", "@">>>>)}}
    \cup {Call("generate_diff", <<"a", LF>>, m) : m \in {<<"a", LF>>, <<"b", LF>>}}
    \cup {Call("_preserve_formatting", o, <<"b", LF, LF>>) : o \in {<<"a", CR, LF>>, <<"a">>}}

\* the frame of a call that returned the text
Returned(text) == [IdleFrame EXCEPT !.pc = "returned", !.result = text]

\* the next step of the call c: one loop iteration of apply_diff, on the locals
\* of that call, or the whole of a function that has no loop of its own
StepOf(c) ==
    CASE c.fn = "apply_diff" ->
             [c EXCEPT !.f = IF c.f.pc = "idle" THEN apply_diff_enter(c.a, c.b)
                             ELSE apply_diff_step(c.f)]
      [] c.fn = "generate_diff" -> [c EXCEPT !.f = Returned(generate_diff(c.a, c.b))]
      [] c.fn = "_preserve_formatting" ->
             [c EXCEPT !.f = Returned(_preserve_formatting(c.a, c.b))]

\* CallStep with patched_lines as one list of the module that every running
\* apply_diff call appends to
CallStep_SharedPatchedLines(cs, k) ==
    [j \in DOMAIN cs |->
        IF j = k THEN StepOf(cs[k])
        ELSE IF cs[j].fn = "apply_diff" /\ cs[k].fn = "apply_diff"
                    /\ cs[j].f.pc \notin {"idle", "returned", "raised"}
        THEN [cs[j] EXCEPT !.f.patched_lines = StepOf(cs[k]).f.patched_lines]
        ELSE cs[j]]

\* the calls cs after a step of call k: the step reads and writes the
\* arguments and locals of call k only (diff.py lines 102-107 and
\* file_manager.py lines 181-193 bind locals; the module state is the compiled
\* pattern of lines 22-28, which is never written)
CallStep(cs, k) == [cs EXCEPT ![k] = StepOf(cs[k])]

InitConc ==
    /\ calls \in [1..MaxCalls -> ConcCalls]
    /\ original = <<>>
    /\ modified = <<>>
    /\ diff = <<>>
    /\ stage = "start"
    /\ ad = IdleFrame
    /\ updated = <<>>
    /\ formatted = <<>>
    /\ file = NoFile
    /\ backup = NoFile
    /\ fm = FmIdle
    /\ cfg = NoConfigManager
    /\ ed = NoEdit

\* the scheduler lets one of the unfinished calls take its next step
RunCall ==
    /\ \E k \in DOMAIN calls :
          /\ ~Finished(calls[k].f)
          /\ calls' = CallStep(calls, k)
    /\ UNCHANGED <<original, modified, diff, stage, ad, fmtvars, fsvars, clivars>>

NextConc == RunCall

SpecConc == InitConc /\ [][NextConc]_vars

\* the outcome of the call c run alone
Alone(c) ==
    CASE c.fn = "apply_diff" -> Outcome(apply_diff(c.a, c.b))
      [] c.fn = "generate_diff" -> Outcome(Returned(generate_diff(c.a, c.b)))
      [] c.fn = "_preserve_formatting" -> Outcome(Returned(_preserve_formatting(c.a, c.b)))

\* C20: apply_diff, generate_diff and _preserve_formatting share no mutable
\* state: however the steps of concurrent calls are interleaved, every call
\* ends with the outcome it has when it runs alone, and no step changes the
\* function or the arguments of any call.
C20_ConcurrentCallsAreIndependent ==
    /\ [](\A k \in DOMAIN calls :
              Finished(calls[k].f) => Outcome(calls[k].f) = Alone(calls[k]))
    /\ [][\A k \in DOMAIN calls :
              /\ calls'[k].fn = calls[k].fn
              /\ calls'[k].a = calls[k].a
              /\ calls'[k].b = calls[k].b]_vars

\* call 2, an apply_diff call, has returned "b\n" + "b\n" while call 1, an
\* apply_diff call on the same arguments, is in its hunk body with one line
\* emitted
C20_Witness ==
    /\ calls[1].fn = "apply_diff"
    /\ calls[1].a = OrigText(2, TRUE)
    /\ calls[1].f.pc = "body"
    /\ calls[1].f.patched_lines = <<<<"b", LF>>>>
    /\ calls[2].fn = "apply_diff"
    /\ calls[2].a = calls[1].a
    /\ calls[2].b = calls[1].b
    /\ calls[2].f.pc = "returned"
    /\ calls[2].f.result = <<"b", LF, "b", LF>>

\* C23: when apply_diff fails inside apply_patch, whatever the error, the call
\* raises IOError and the file is exactly what it was before the call; of the
\* file system only the backup may have changed, to a copy of the file.
C23_FailedPatchLeavesFile ==
    [][(fm'.n = fm.n + 1 /\ apply_diff(get_file_contents(file), diff').pc = "raised")
           => /\ fm'.pc = "raised"
              /\ fm'.exc.type = "IOError"
              /\ file' = file
              /\ backup' \in {backup, FileOf(file.bytes)}]_vars

\* the second call failed on an unknown mark behind an addition line, and the
\* file still holds what the first call wrote
C23_Witness ==
    /\ fm.pc = "raised"
    /\ fm.n = 2
    /\ fm.cause = UnknownDiffMarker
    /\ file = FileOf(<<"b", LF>>)
    /\ backup = file

----------------------------------------------------------------------------
(* The shape of the patched text (SpecSkip) *)

\* the lines the addition lines of the hunk bodies emit, from diff line k on
RECURSIVE AdditionsFrom(_, _)
AdditionsFrom(ls, k) ==
    IF k > Len(ls) THEN <<>>
    ELSE (IF InBody(ls, k) /\ StartsWith(ls[k], <<"+">>)
          THEN <<Tail(ls[k]) \o <<LF>>>> ELSE <<>>)
             \o AdditionsFrom(ls, k + 1)

\* p is an interleaving of all of adds, in order, and of some of the lines of
\* orig, in order and each used once at most
RECURSIVE IsMerge(_, _, _)
IsMerge(p, adds, orig) ==
    IF p = <<>> THEN adds = <<>>
    ELSE \/ adds # <<>> /\ Head(p) = Head(adds) /\ IsMerge(Tail(p), Tail(adds), orig)
         \/ \E k \in 1..Len(orig) :
                orig[k] = Head(p) /\ IsMerge(Tail(p), adds, SubSeq(orig, k + 1, Len(orig)))

\* C24: a result of apply_diff is an interleaving of the texts of the addition
\* lines, in diff order and each followed by "\n", and of a subsequence of the
\* original lines, in order, byte for byte and each once at most. The cursor
\* never decreases; a hunk that starts behind the cursor copies nothing; the
\* cursor passes an original line only when a removal line consumes it or
\* when the line is emitted; and the return emits every line from the cursor
\* to the end.
C24_ResultIsMergeOfAdditionsAndOriginal ==
    /\ [](ad.pc = "returned"
              => /\ IsMerge(ad.patched_lines, AdditionsFrom(ad.diff_lines, 1),
                            ad.original_lines)
                 /\ ad.result = Concat(ad.patched_lines))
    /\ [][ad.pc # "idle" => ad'.orig_index >= ad.orig_index]_vars
    /\ [][(ad.pc = "copy" /\ ad.orig_start <= ad.orig_index)
              => /\ ad'.patched_lines = ad.patched_lines
                 /\ ad'.orig_index = ad.orig_index]_vars
    /\ [][(ad.pc # "idle" /\ ad'.orig_index # ad.orig_index)
              => /\ ad'.orig_index = ad.orig_index + 1
                 /\ \/ /\ AtBodyLine(ad) /\ StartsWith(LineAt(ad), <<"-">>)
                       /\ ad'.patched_lines = ad.patched_lines
                    \/ /\ ad.orig_index < Len(ad.original_lines)
                       /\ ad'.patched_lines
                              = Append(ad.patched_lines, ad.original_lines[ad.orig_index + 1])]_vars
    /\ [][(ad.pc # "returned" /\ ad'.pc = "returned")
              => ad'.patched_lines
                     = ad.patched_lines
                           \o Slice(ad.original_lines, ad.orig_index, Len(ad.original_lines))]_vars

\* the hunk at line 2 copied "a\r\n" and added "b\n"; the hunk at line 1 behind
\* it copied nothing, and the return emitted the original line "b\n"
C24_Witness ==
    /\ ad.pc = "returned"
    /\ ad.diff_lines = <<HunkHeader(2, 2), <<"+", "b">>, HunkHeader(1, 1)>>
    /\ original = <<"a", CR, LF, "b", LF>>
    /\ ad.patched_lines = <<<<"a", CR, LF>>, <<"b", LF>>, <<"b", LF>>>>

\* every line of the diff lines ls starts with "---" or "+++"
OnlyFileHeaders(ls) == \A k \in 1..Len(ls) : IsFileHeader(ls[k])

\* C25: a diff without hunks is the identity: when the diff is empty or has
\* only lines that start with "---" or "+++", apply_diff returns the original
\* byte for byte, with its line endings and without a final newline it lacks.
C25_NoHunksIsIdentity ==
    (Finished(ad) /\ OnlyFileHeaders(ad.diff_lines))
        => ad.pc = "returned" /\ ad.result = original

\* the call on "a\r\nb" with the diff "+++ m", "--- o" has returned "a\r\nb"
C25_Witness ==
    /\ ad.pc = "returned"
    /\ ad.diff_lines = <<<<"+", "+", "+", " ", "m">>, <<"-", "-", "-", " ", "o">>>>
    /\ original = <<"a", CR, LF, "b">>
    /\ ad.result = <<"a", CR, LF, "b">>

----------------------------------------------------------------------------
(* Termination of apply_diff (SpecSkip) *)

\* the order in which the loops follow each other while the diff index stays
\* where it is: the body loop ends at a hunk header, whose hunk runs the copy
\* loop; the hunk loop ends at the end of the diff
LoopRank(pc) ==
    CASE pc = "skip_headers" -> 0
      [] pc = "body" -> 1
      [] pc = "hunk" -> 2
      [] pc = "copy" -> 3
      [] pc = "finish" -> 4
      [] OTHER -> 5

\* the step from frame f to frame g brings the call nearer to its end: it ends
\* the call, or moves the diff index on, or goes on to a later loop at the
\* same index, or moves the cursor of the copy loop on towards the hunk start
Nearer(f, g) ==
    \/ Finished(g)
    \/ g.i > f.i /\ g.i <= Len(g.diff_lines)
    \/ g.i = f.i /\ LoopRank(g.pc) > LoopRank(f.pc)
    \/ /\ g.i = f.i /\ g.pc = "copy" /\ f.pc = "copy"
       /\ g.orig_start = f.orig_start
       /\ g.orig_index > f.orig_index /\ g.orig_index <= g.orig_start

\* C26: apply_diff ends on every original and diff, by returning or by raising:
\* the next step of a running call always brings it nearer to its end, in an
\* order that has no infinite descent. Each iteration of the header-skip loop
\* and of the body loop moves the diff index on by one, each iteration of the
\* hunk loop does so when it leaves the copy loop (line 131), and each
\* iteration of the copy loop moves the cursor on by one, up to the start of
\* the hunk at most.
C26_ApplyDiffTerminates ==
    /\ []((ad.pc # "idle" /\ ~Finished(ad))
              => /\ ad.i <= Len(ad.diff_lines)
                 /\ Nearer(ad, apply_diff_step(ad)))
    /\ [][(ad.pc = "skip_headers" /\ ad'.pc = "skip_headers") => ad'.i = ad.i + 1]_vars
    /\ [][(ad.pc = "body" /\ ad'.pc = "body") => ad'.i = ad.i + 1]_vars
    /\ [][(ad.pc = "hunk" /\ ad'.pc = "copy") => ad.i < Len(ad.diff_lines)]_vars
    /\ [][(ad.pc = "copy" /\ ad'.pc = "body") => ad'.i = ad.i + 1]_vars
    /\ [][(ad.pc = "copy" /\ ad'.pc = "copy")
              => /\ ad'.orig_index = ad.orig_index + 1
                 /\ ad'.orig_index <= ad.orig_start]_vars

\* the call has returned after one iteration of the header-skip loop, a hunk
\* at line 2 whose copy loop ran once, and a body loop over an empty line
C26_Witness ==
    /\ ad.pc = "returned"
    /\ ad.diff_lines = <<<<"-", "-", "-", " ", "o">>, HunkHeader(2, 2), <<>>>>
    /\ ad.i = 3
    /\ ad.orig_index = 1
    /\ original = <<"a", CR, LF>>

----------------------------------------------------------------------------
(* FileManager.apply_changes on one path (SpecFC) *)

\* the characters str.lstrip() removes
StripChars == {" ", TAB, LF, CR, "\f"}

\* s.lstrip()
RECURSIVE lstrip(_)
lstrip(s) == IF s # <<>> /\ Head(s) \in StripChars THEN lstrip(Tail(s)) ELSE s

\* sub in s
Contains(s, sub) == \E k \in 0..(Len(s) - Len(sub)) : SubSeq(s, k + 1, k + Len(sub)) = sub

\* line 127
is_diff(new_content) ==
    /\ StartsWith(lstrip(new_content), <<"-", "-", "-">>)
    /\ Contains(new_content, <<LF, "+", "+", "+">>)

\* lines 114-136: the file, the backup and the frame after
\* apply_changes(path, new_content) on the file f with the backup b, as the
\* n-th call
apply_changes(f, b, new_content, n) ==
    IF is_diff(new_content) THEN apply_patch(f, b, new_content, n)
    ELSE LET orig == get_file_contents(f)
             content == _preserve_formatting(orig, new_content)
         IN  [file |-> FileOf(WriteText(content)), backup |-> b,
              fm |-> [pc |-> "returned", original |-> orig, patched |-> content,
                      exc |-> NoExc, cause |-> NoExc, n |-> n]]

\* "--- o", "+++ m", "@@ -1 +1 @@", "-a", "+b", each line ended by term
ReplaceFirstLine(term) ==
    Concat([k \in 1..5 |->
               <<<<"-", "-", "-", " ", "o">>, <<"+", "+", "+", " ", "m">>,
                 HunkHeader(1, 1), <<"-", "a">>, <<"+", "b">>>>[k] \o term])

\* the texts handed to apply_changes: a full content, the diff that replaces
\* line 1, the same diff behind an empty line, behind a space and with "\r"
\* line ends, and two texts with one file header only
ChangeTexts ==
    {<<"b", LF>>,
     ReplaceFirstLine(<<LF>>),
     <<LF>> \o ReplaceFirstLine(<<LF>>),
     <<" ">> \o ReplaceFirstLine(<<LF>>),
     ReplaceFirstLine(<<CR>>),
     <<"-", "-", "-", " ", "o", LF>>,
     <<"+", "+", "+", " ", "m", LF, "-", "-", "-", " ", "o", LF>>}

\* FileManager.apply_changes(path, c)
ApplyChanges ==
    /\ fm.n < MaxPatches
    /\ \E c \in ChangeTexts :
          LET after == apply_changes(file, backup, c, fm.n + 1)
          IN  /\ diff' = c
              /\ file' = after.file
              /\ backup' = after.backup
              /\ fm' = after.fm
    /\ UNCHANGED <<original, modified, stage, ad, fmtvars, calls, clivars>>

NextFC == ApplyChanges

SpecFC == InitFM /\ [][NextFC]_vars

\* c, leading whitespace aside, starts with "---", and a line of c starts with
\* "+++"
LooksLikeDiff(c) ==
    /\ StartsWith(lstrip(c), <<"-", "-", "-">>)
    /\ \E k \in 1..Len(splitlines(c, FALSE)) :
           StartsWith(splitlines(c, FALSE)[k], <<"+", "+", "+">>)

\* C21: apply_changes(path, c) patches the file with c as a unified diff
\* whenever c looks like a diff, the whitespace in front of the "---" header
\* being no reason to reject it: the call ends as apply_patch ends on the diff
\* that starts at the header. In every other case the file is overwritten with
\* _preserve_formatting(old content, c).
C21_ChangesArePatchedOrOverwritten ==
    [][fm'.n = fm.n + 1
           => IF LooksLikeDiff(diff')
              THEN LET patch == apply_patch(file, backup, lstrip(diff'), fm'.n)
                   IN  /\ file' = patch.file
                       /\ backup' = patch.backup
                       /\ fm'.pc = patch.fm.pc
              ELSE /\ backup' = backup
                   /\ fm'.pc = "returned"
                   /\ file' = FileOf(_preserve_formatting(
                                         IF file.exists THEN file.bytes ELSE <<>>, diff'))]_vars

----------------------------------------------------------------------------
(* ConfigManager: DEFAULT_CONFIG, the config files and the environment (SpecCfg) *)

MaxConfigOps == 3

\* configuration values: None, a str, an int
NoneValue == [t |-> "none", v |-> <<>>]
StrValue(s) == [t |-> "str", v |-> s]
IntValue(s) == [t |-> "int", v |-> s]

\* {}
EmptyDict == [x \in {} |-> NoneValue]

\* d[k] = v
Put(d, k, v) == [x \in DOMAIN d \cup {k} |-> IF x = k THEN v ELSE d[x]]

\* d.update(e)
Update(d, e) == [x \in DOMAIN d \cup DOMAIN e |-> IF x \in DOMAIN e THEN e[x] ELSE d[x]]

\* names of sections and keys
azure == <<"a", "z", "u", "r", "e">>
endpoint == <<"e", "n", "d", "p", "o", "i", "n", "t">>
model == <<"m", "o", "d", "e", "l">>
agent == <<"a", "g", "e", "n", "t">>
max_turns == <<"m", "a", "x", "_", "t", "u", "r", "n", "s">>

\* lines 15-59, the sections azure (endpoint, model) and agent (max_turns)
DEFAULT_CONFIG ==
    (azure :> (endpoint :> NoneValue @@ model :> StrValue(<<"g", "p", "t", "-", "4">>)))
        @@ (agent :> (max_turns :> IntValue(<<"1", "5">>)))

\* the keys given in dot notation
ConfigKeys == {<<"a", "z", "u", "r", "e", ".", "e", "n", "d", "p", "o", "i", "n", "t">>,
               <<"a", "g", "e", "n", "t", ".", "m", "a", "x", "_", "t", "u", "r", "n", "s">>,
               <<"m", "y", "-", "t", "o", "o", "l", ".", "o", "p", "t">>}

\* s.split(".")
RECURSIVE split(_, _)
split(s, sep) ==
    IF \A k \in 1..Len(s) : s[k] # sep THEN <<s>>
    ELSE LET k == CHOOSE k \in 1..Len(s) : s[k] = sep /\ \A j \in 1..(k - 1) : s[j] # sep
         IN  <<SubSeq(s, 1, k - 1)>> \o split(SubSeq(s, k + 1, Len(s)), sep)

LowerCase == <<"a", "b", "c", "d", "e", "f", "g", "h", "i", "j", "k", "l", "m", "n", "o", "p", "q", "r", "s", "t", "u", "v", "w", "x", "y", "z">>
UpperCase == <<"A", "B", "C", "D", "E", "F", "G", "H", "I", "J", "K", "L", "M", "N", "O", "P", "Q", "R", "S", "T", "U", "V", "W", "X", "Y", "Z">>

\* c.upper()
upper(c) ==
    IF \E k \in 1..Len(LowerCase) : LowerCase[k] = c
    THEN UpperCase[CHOOSE k \in 1..Len(LowerCase) : LowerCase[k] = c]
    ELSE c

\* line 122
env_key(key) ==
    <<"A", "I", "_", "E", "D", "I", "T", "_">>
        \o [k \in 1..Len(key) |-> IF upper(key[k]) \in {".", "-"} THEN "_" ELSE upper(key[k])]

\* a config file: data is what yaml.safe_load returns for it, {} for an empty
\* file
NoConfigFile == [exists |-> FALSE, data |-> EmptyDict]
ConfigFileOf(data) == [exists |-> TRUE, data |-> data]

\* lines 192-212: None for a missing file
NoConfig == [none |-> TRUE, d |-> EmptyDict]
_load_config(f) == IF f.exists THEN [none |-> FALSE, d |-> f.data] ELSE NoConfig

\* not config
Falsy(config) == config.none \/ DOMAIN config.d = {}

\* the variable is not in the environment
Unset == [set |-> FALSE, v |-> <<>>]
SetTo(v) == [set |-> TRUE, v |-> v]

\* lines 105-136: the value get_config(key, default) returns in the project p
get_config(c, p, key, default) ==
    LET project == _load_config(c.project[p])
        config == IF Falsy(project) THEN _load_config(c.global) ELSE project
        env_value == c.env[env_key(key)]
        keys == split(key, ".")
    IN  IF Falsy(config) THEN default
        ELSE IF env_value.set /\ env_value.v # <<>> THEN StrValue(env_value.v)
        ELSE IF /\ Len(keys) = 2
                /\ keys[1] \in DOMAIN config.d
                /\ keys[2] \in DOMAIN config.d[keys[1]]
             THEN config.d[keys[1]][keys[2]]
             ELSE default

\* int(value) succeeds
IsInt(value) == value # <<>> /\ \A k \in 1..Len(value) : IsDigit(value[k])

\* lines 138-179: set_config(key, value) in the project p; DEFAULT_CONFIG.copy()
\* is a shallow copy, whose sections are the dicts of DEFAULT_CONFIG
set_config(c, p, key, value) ==
    LET copied == ~c.project[p].exists
        keys == split(key, ".")
        sec == keys[1]
        converted == IF key = <<"a", "g", "e", "n", "t", ".", "m", "a", "x", "_", "t", "u", "r", "n", "s">> THEN IntValue(value) ELSE StrValue(value)
        shared == copied /\ sec \in DOMAIN c.DEFAULT_CONFIG
        defaults == IF shared
                    THEN [c.DEFAULT_CONFIG EXCEPT ![sec] = Put(@, keys[2], converted)]
                    ELSE c.DEFAULT_CONFIG
        config == IF copied THEN c.DEFAULT_CONFIG ELSE c.project[p].data
        saved == IF shared THEN defaults
                 ELSE Put(config, sec,
                          Put(IF sec \in DOMAIN config THEN config[sec] ELSE EmptyDict,
                              keys[2], converted))
    IN  IF key = <<"a", "g", "e", "n", "t", ".", "m", "a", "x", "_", "t", "u", "r", "n", "s">> /\ ~IsInt(value)
        THEN [c EXCEPT !.op = "set_config", !.p = p, !.key = key, !.n = @ + 1,
                       !.exc = "ValueError", !.result = NoneValue]
        ELSE [c EXCEPT !.op = "set_config", !.p = p, !.key = key, !.n = @ + 1,
                       !.exc = "", !.result = NoneValue,
                       !.DEFAULT_CONFIG = defaults,
                       !.project[p] = ConfigFileOf(saved)]

\* lines 76-103: initialize_project(p, force)
initialize_project(c, p, force) ==
    LET global_config == _load_config(c.global)
        inherits == ~Falsy(global_config) /\ azure \in DOMAIN global_config.d
        defaults == IF inherits
                    THEN [c.DEFAULT_CONFIG EXCEPT
                              ![azure] = Update(@, global_config.d[azure])]
                    ELSE c.DEFAULT_CONFIG
    IN  IF c.project[p].exists /\ ~force
        THEN [c EXCEPT !.op = "initialize_project", !.p = p, !.key = <<>>, !.n = @ + 1,
                       !.exc = "ValueError", !.result = NoneValue]
        ELSE [c EXCEPT !.op = "initialize_project", !.p = p, !.key = <<>>, !.n = @ + 1,
                       !.exc = "", !.result = NoneValue,
                       !.DEFAULT_CONFIG = defaults,
                       !.project[p] = ConfigFileOf(defaults)]

\* the project directories
Projects == {"A", "B"}

\* the global config file: missing, empty, or with an azure section
GlobalConfigFiles ==
    {NoConfigFile, ConfigFileOf(EmptyDict),
     ConfigFileOf(azure :> (endpoint :> StrValue(<<"g">>)))}

\* the environment: nothing set, AI_EDIT_AZURE_ENDPOINT empty or "e",
\* AI_EDIT_AGENT_MAX_TURNS "7"
Environments ==
    LET none == [name \in {env_key(k) : k \in ConfigKeys} |-> Unset]
    IN  {none,
         [none EXCEPT ![env_key(<<"a", "z", "u", "r", "e", ".", "e", "n", "d", "p", "o", "i", "n", "t">>)] = SetTo(<<>>)],
         [none EXCEPT ![env_key(<<"a", "z", "u", "r", "e", ".", "e", "n", "d", "p", "o", "i", "n", "t">>)] = SetTo(<<"e">>)],
         [none EXCEPT ![env_key(<<"a", "g", "e", "n", "t", ".", "m", "a", "x", "_", "t", "u", "r", "n", "s">>)] = SetTo(<<"7">>)]}

\* the values given to set_config
ConfigValues == {<<"5">>, <<"x">>}

InitCfg ==
    /\ cfg \in {[DEFAULT_CONFIG |-> DEFAULT_CONFIG,
                 project |-> [p \in Projects |-> NoConfigFile],
                 global |-> g, env |-> e, n |-> 0, op |-> "", p |-> "", key |-> <<>>,
                 exc |-> "", result |-> NoneValue] :
                    g \in GlobalConfigFiles, e \in Environments}
    /\ ed = NoEdit
    /\ original = <<>>
    /\ modified = <<>>
    /\ diff = <<>>
    /\ stage = "start"
    /\ ad = IdleFrame
    /\ updated = <<>>
    /\ formatted = <<>>
    /\ file = NoFile
    /\ backup = NoFile
    /\ fm = FmIdle
    /\ calls = <<>>

\* ConfigManager(p).initialize_project(p, force)
InitializeProject ==
    /\ cfg.n < MaxConfigOps
    /\ \E p \in Projects, force \in BOOLEAN : cfg' = initialize_project(cfg, p, force)
    /\ UNCHANGED <<original, modified, diff, stage, ad, fmtvars, fsvars, calls, ed>>

\* ConfigManager(p).set_config(key, value)
SetConfig ==
    /\ cfg.n < MaxConfigOps
    /\ \E p \in Projects, key \in ConfigKeys, value \in ConfigValues :
          cfg' = set_config(cfg, p, key, value)
    /\ UNCHANGED <<original, modified, diff, stage, ad, fmtvars, fsvars, calls, ed>>

\* ConfigManager(p).get_config(key, None)
GetConfig ==
    /\ cfg.n < MaxConfigOps
    /\ \E p \in Projects, key \in ConfigKeys :
          cfg' = [cfg EXCEPT !.op = "get_config", !.p = p, !.key = key, !.n = @ + 1,
                             !.exc = "", !.result = get_config(cfg, p, key, NoneValue)]
    /\ UNCHANGED <<original, modified, diff, stage, ad, fmtvars, fsvars, calls, ed>>

NextCfg == InitializeProject \/ SetConfig \/ GetConfig

SpecCfg == InitCfg /\ [][NextCfg]_vars

\* C22: whenever the variable AI_EDIT_<KEY> is set to a non-empty value,
\* get_config(key, default) returns that value, whatever the project and the
\* global config files hold and whether they exist.
C22_EnvironmentOverridesConfig ==
    [][(cfg'.op = "get_config" /\ cfg'.n = cfg.n + 1
            /\ cfg.env[env_key(cfg'.key)].set /\ cfg.env[env_key(cfg'.key)].v # <<>>)
           => cfg'.result = StrValue(cfg.env[env_key(cfg'.key)].v)]_vars

\* C30: no operation changes DEFAULT_CONFIG, and initialize_project writes the
\* pristine defaults with the azure section updated from the global config file.
C30_DefaultConfigIsNeverChanged ==
    /\ [](cfg.DEFAULT_CONFIG = DEFAULT_CONFIG)
    /\ [][(cfg'.op = "initialize_project" /\ cfg'.n = cfg.n + 1 /\ cfg'.exc = "")
              => cfg'.project[cfg'.p] =
                     ConfigFileOf(IF cfg.global.exists /\ azure \in DOMAIN cfg.global.data
                                  THEN [DEFAULT_CONFIG EXCEPT
                                            ![azure] = Update(@, cfg.global.data[azure])]
                                  ELSE DEFAULT_CONFIG)]_vars

----------------------------------------------------------------------------
(* The edit command: conversation loop and application of the changes (SpecEdit) *)

\* the largest agent.max_turns
MaxTurns == 2

\* s.rstrip()
RECURSIVE rstrip(_)
rstrip(s) ==
    IF s # <<>> /\ s[Len(s)] \in StripChars THEN rstrip(SubSeq(s, 1, Len(s) - 1)) ELSE s

\* s.strip()
strip(s) == rstrip(lstrip(s))

\* the tools of the conversation, parser.py line 88
KnownTools == {"read_file", "list_files"}

\* a response of the AI client: its <tool_call> elements (name, path) and its
\* fenced file blocks (path, content), in the order of the text
ResponseOf(tools, blocks) == [tools |-> tools, blocks |-> blocks]
ToolCall(name, path) == [name |-> name, path |-> path]
FileBlock(path, content) == [path |-> path, content |-> content]

\* ai_response_text = "" (line 543)
EmptyResponse == ResponseOf(<<>>, <<>>)

\* an entry of the list parse_ai_response returns
Operation(type, path, content) == [type |-> type, path |-> path, content |-> content]

\* parser.py lines 76-91
RECURSIVE known_tool_calls(_)
known_tool_calls(tools) ==
    IF tools = <<>> THEN <<>>
    ELSE (IF Head(tools).name \in KnownTools
          THEN <<Operation(Head(tools).name, Head(tools).path, <<>>)>> ELSE <<>>)
             \o known_tool_calls(Tail(tools))

_parse_tool_calls(response) == known_tool_calls(response.tools)

\* parser.py lines 27-73
_parse_code_blocks(response) ==
    [k \in 1..Len(response.blocks) |->
        Operation("modify_file", response.blocks[k].path, strip(response.blocks[k].content))]

\* parser.py lines 9-24
parse_ai_response(response) ==
    IF _parse_tool_calls(response) # <<>> THEN _parse_tool_calls(response)
    ELSE _parse_code_blocks(response)

\* the paths of the project, and the project directory
Paths == {"p", "q"}
FileSystems == [Paths -> {NoFile, FileOf(<<"a", LF>>)}]

\* a diff whose hunk header is malformed
BrokenDiff == <<"-", "-", "-", " ", "o", LF, "+", "+", "+", " ", "m", LF, "@", "@", " ", "x">>

\* the responses: an explanation only, a tool call, a tool call next to a file
\* block, an unknown tool next to a file block, one file block, two file
\* blocks, three file blocks whose second is a diff that fails, and two whose
\* first fails
Responses ==
    {EmptyResponse,
     ResponseOf(<<ToolCall("read_file", "p")>>, <<>>),
     ResponseOf(<<ToolCall("list_files", "q")>>, <<FileBlock("p", <<"b", LF>>)>>),
     ResponseOf(<<ToolCall("run", "p")>>, <<FileBlock("p", <<"b", LF>>)>>),
     ResponseOf(<<>>, <<FileBlock("p", <<LF, "b">>)>>),
     ResponseOf(<<>>, <<FileBlock("p", <<"b">>), FileBlock("q", ReplaceFirstLine(<<LF>>))>>),
     ResponseOf(<<>>, <<FileBlock("p", <<"b">>), FileBlock("q", BrokenDiff),
                        FileBlock("p", <<"c">>)>>),
     ResponseOf(<<>>, <<FileBlock("q", BrokenDiff), FileBlock("p", <<"b">>)>>)}

\* a call of a FileManager method made by the command
FmCall(method, path) == [method |-> method, path |-> path]

\* the frame of edit when the command is entered
EditFrame(max, dry_run, interactive, bak, files) ==
    [pc |-> "start", turn |-> 0, max_turns |-> max, requests |-> 0,
     response |-> EmptyResponse, operations |-> <<>>, final_operations |-> <<>>, k |-> 0,
     dry_run |-> dry_run, interactive |-> interactive, backup |-> bak,
     confirmed |-> "", exit_code |-> 0, how |-> "", log |-> <<>>,
     files |-> files, backups |-> [p \in Paths |-> NoFile], before |-> files]

\* return, or sys.exit(code)
Exit(e, code, how) == [e EXCEPT !.pc = "exited", !.exit_code = code, !.how = how]

\* lines 421-545: the guards, the AI client, and the entry of the loop, which
\* range(max_turns) skips when max_turns is not positive
edit_start(e, initialised, has_prompt, valid_config, client_ok) ==
    IF ~initialised THEN Exit(e, 1, "not_initialized")
    ELSE IF ~has_prompt THEN Exit(e, 1, "no_prompt")
    ELSE IF ~valid_config THEN Exit(e, 0, "not_configured")
    ELSE IF ~client_ok THEN Exit(e, 1, "client_error")
    ELSE IF e.max_turns <= 0 THEN [e EXCEPT !.pc = "final"]
    ELSE [e EXCEPT !.pc = "loop"]

\* lines 570-601: the FileManager calls the tool operations make
RECURSIVE tool_calls_of(_)
tool_calls_of(ops) ==
    IF ops = <<>> THEN <<>>
    ELSE (IF Head(ops).type = "read_file"
          THEN <<FmCall("get_file_contents", Head(ops).path)>> ELSE <<>>)
             \o tool_calls_of(Tail(ops))

\* a conversation loop that allows one turn more
turn_step_ExtraTurn(e, ok, response) ==
    LET sent == [e EXCEPT !.requests = @ + 1]
        operations == parse_ai_response(response)
        got == [sent EXCEPT !.response = response, !.operations = operations]
    IN  IF ~ok THEN Exit(sent, 1, "ai_error")
        ELSE IF operations = <<>> \/ \A k \in 1..Len(operations) : operations[k].type = "modify_file"
        THEN [got EXCEPT !.pc = "final"]
        ELSE LET told == [got EXCEPT !.log = @ \o tool_calls_of(operations)]
             IN  IF e.turn = e.max_turns
                 THEN Exit(told, 0, "max_turns")
                 ELSE [told EXCEPT !.turn = @ + 1]

\* lines 545-611: one turn of the loop; ok is whether get_completion returned
turn_step(e, ok, response) ==
    LET sent == [e EXCEPT !.requests = @ + 1]
        operations == parse_ai_response(response)
        got == [sent EXCEPT !.response = response, !.operations = operations]
    IN  IF ~ok THEN Exit(sent, 1, "ai_error")
        ELSE IF operations = <<>> \/ \A k \in 1..Len(operations) : operations[k].type = "modify_file"
        THEN [got EXCEPT !.pc = "final"]
        ELSE LET told == [got EXCEPT !.log = @ \o tool_calls_of(operations)]
             IN  IF e.turn = e.max_turns - 1
                 THEN Exit(told, 0, "max_turns")
                 ELSE [told EXCEPT !.turn = @ + 1]

\* lines 613-615: the operations of type modify_file
RECURSIVE modifications(_)
modifications(ops) ==
    IF ops = <<>> THEN <<>>
    ELSE (IF Head(ops).type = "modify_file" THEN <<Head(ops)>> ELSE <<>>)
             \o modifications(Tail(ops))

\* a command that goes on to apply the changes in a dry run
final_step_AppliesInDryRun(e, confirm) ==
    LET final == modifications(parse_ai_response(e.response))
        found == [e EXCEPT !.final_operations = final]
    IN  IF final = <<>> THEN Exit(found, 0, "no_modifications")
        ELSE IF e.interactive /\ ~confirm
        THEN Exit([found EXCEPT !.confirmed = "no"], 0, "cancelled")
        ELSE [found EXCEPT !.pc = "apply", !.k = 1,
                           !.confirmed = IF e.interactive THEN "yes" ELSE ""]

\* lines 613-644: the final operations, the dry run and the confirmation;
\* confirm is the answer click.confirm returns
final_step(e, confirm) ==
    LET final == modifications(parse_ai_response(e.response))
        found == [e EXCEPT !.final_operations = final]
    IN  IF final = <<>> THEN Exit(found, 0, "no_modifications")
        ELSE IF e.dry_run THEN Exit(found, 0, "dry_run")
        ELSE IF e.interactive /\ ~confirm
        THEN Exit([found EXCEPT !.confirmed = "no"], 0, "cancelled")
        ELSE [found EXCEPT !.pc = "apply", !.k = 1,
                           !.confirmed = IF e.interactive THEN "yes" ELSE ""]

\* lines 646-678 for one operation, whose kind is "full" as the parser sets no
\* kind: the frame after create_backup and apply_changes, and whether
\* apply_changes raised
apply_operation(e, op) ==
    CHOOSE done \in
        {[frame |-> [e EXCEPT !.files[op.path] = after.file,
                              !.backups[op.path] = after.backup,
                              !.log = @ \o (IF e.backup
                                            THEN <<FmCall("create_backup", op.path)>>
                                            ELSE <<>>)
                                       \o <<FmCall("apply_changes", op.path)>>
                                       \o (IF is_diff(op.content)
                                           THEN <<FmCall("apply_patch", op.path)>>
                                           ELSE <<>>)],
          raised |-> after.fm.pc = "raised"] :
            after \in {apply_changes(e.files[op.path],
                                     IF e.backup
                                     THEN create_backup(e.files[op.path], e.backups[op.path])
                                     ELSE e.backups[op.path],
                                     op.content, e.k)}} : TRUE

\* a command that goes on with the next operation when one has failed
apply_step_GoesOnAfterFailure(e) ==
    CHOOSE next \in
        {IF e.k = Len(e.final_operations)
         THEN Exit(done.frame, IF done.raised THEN 1 ELSE 0,
                   IF done.raised THEN "failed" ELSE "applied")
         ELSE [done.frame EXCEPT !.k = @ + 1] :
            done \in {apply_operation(e, e.final_operations[e.k])}} : TRUE

\* lines 645-686: the k-th pass of the loop over final_operations
apply_step(e) ==
    CHOOSE next \in
        {IF done.raised THEN Exit(done.frame, 1, "failed")
         ELSE IF e.k = Len(e.final_operations) THEN Exit(done.frame, 0, "applied")
         ELSE [done.frame EXCEPT !.k = @ + 1] :
            done \in {apply_operation(e, e.final_operations[e.k])}} : TRUE

InitEdit ==
    /\ ed \in {EditFrame(max, dry, inter, bak, files) :
                  max \in 0..MaxTurns, dry \in BOOLEAN, inter \in BOOLEAN,
                  bak \in BOOLEAN, files \in FileSystems}
    /\ cfg = NoConfigManager
    /\ original = <<>>
    /\ modified = <<>>
    /\ diff = <<>>
    /\ stage = "start"
    /\ ad = IdleFrame
    /\ updated = <<>>
    /\ formatted = <<>>
    /\ file = NoFile
    /\ backup = NoFile
    /\ fm = FmIdle
    /\ calls = <<>>

\* ai-edit edit is entered
EditStart ==
    /\ ed.pc = "start"
    /\ \E initialised, has_prompt, valid_config, client_ok \in BOOLEAN :
          ed' = edit_start(ed, initialised, has_prompt, valid_config, client_ok)
    /\ UNCHANGED <<original, modified, diff, stage, ad, fmtvars, fsvars, calls, cfg>>

\* one turn of the conversation
Turn ==
    /\ ed.pc = "loop"
    /\ \E ok \in BOOLEAN, response \in Responses :
          /\ ~ok => response = EmptyResponse
          /\ ed' = turn_step(ed, ok, response)
    /\ UNCHANGED <<original, modified, diff, stage, ad, fmtvars, fsvars, calls, cfg>>

\* the loop is left: the final operations are listed
Final ==
    /\ ed.pc = "final"
    /\ \E confirm \in BOOLEAN :
          /\ ~ed.interactive => confirm
          /\ ed' = final_step(ed, confirm)
    /\ UNCHANGED <<original, modified, diff, stage, ad, fmtvars, fsvars, calls, cfg>>

\* the next of the final operations is applied
ApplyOperation ==
    /\ ed.pc = "apply"
    /\ ed' = apply_step(ed)
    /\ UNCHANGED <<original, modified, diff, stage, ad, fmtvars, fsvars, calls, cfg>>

NextEdit == EditStart \/ Turn \/ Final \/ ApplyOperation

SpecEdit == InitEdit /\ [][NextEdit]_vars

\* the response holds a call of one of the tools
HasToolCall(response) ==
    \E k \in 1..Len(response.tools) : response.tools[k].name \in KnownTools

\* the command has called none of create_backup, apply_patch, apply_changes
NoWrites(e) ==
    \A k \in 1..Len(e.log) : e.log[k].method \notin {"create_backup", "apply_patch", "apply_changes"}

\* the step gets a response from the AI client
GotResponse == ed'.requests = ed.requests + 1 /\ ed'.how # "ai_error"

\* C27: the conversation loop sends at most max_turns completion requests; it
\* ends as soon as a response holds no tool call, and no request follows; when
\* the response of the last turn still holds a call of read_file or list_files,
\* the command returns at once and has modified no file.
C27_LoopIsBoundedAndEndsWithoutToolCalls ==
    /\ [](ed.requests <= ed.max_turns)
    /\ [][(GotResponse /\ ~HasToolCall(ed'.response)) => ed'.pc = "final"]_vars
    /\ [][ed.pc # "loop" => ed'.requests = ed.requests]_vars
    /\ [][(GotResponse /\ ed'.requests = ed.max_turns /\ HasToolCall(ed'.response))
              => /\ ed'.pc = "exited"
                 /\ ed'.exit_code = 0
                 /\ NoWrites(ed')
                 /\ ed'.files = ed.before
                 /\ ed'.backups = [p \in Paths |-> NoFile]]_vars
    /\ [][ed.pc = "exited" => ed' = ed]_vars

\* the second and last turn got a tool call next to a file block, and the
\* command returned
C27_Witness ==
    /\ ed.how = "max_turns"
    /\ ed.pc = "exited"
    /\ ed.max_turns = 2
    /\ ed.requests = 2
    /\ HasToolCall(ed.response)
    /\ ed.response.blocks # <<>>

\* C28: with --dry-run, or when the confirmation of --interactive is declined,
\* edit calls none of create_backup, apply_patch and apply_changes: no file
\* and no backup is written.
C28_DryRunAndDeclineWriteNothing ==
    (ed.pc # "start" /\ (ed.dry_run \/ ed.confirmed = "no"))
        => /\ NoWrites(ed)
           /\ ed.files = ed.before
           /\ ed.backups = [p \in Paths |-> NoFile]

\* a dry run with --backup and --interactive that listed three modifications
C28_Witness ==
    /\ ed.how = "dry_run"
    /\ ed.pc = "exited"
    /\ ed.backup
    /\ ed.interactive
    /\ Len(ed.final_operations) = 3
    /\ \E p \in Paths : ed.before[p].exists

\* the files after the first j of the operations were applied, each by
\* apply_changes, in the order of the list
RECURSIVE AfterOperations(_, _, _)
AfterOperations(files, ops, j) ==
    IF j = 0 THEN files
    ELSE [AfterOperations(files, ops, j - 1) EXCEPT
              ![ops[j].path] = apply_changes(@, NoFile, ops[j].content, j).file]

\* apply_changes raises for the j-th operation, the ones before it applied
FailsAt(files, ops, j) ==
    apply_changes(AfterOperations(files, ops, j - 1)[ops[j].path], NoFile,
                  ops[j].content, j).fm.pc = "raised"

\* the paths apply_changes was called with, in the order of the calls
RECURSIVE AppliedPaths(_)
AppliedPaths(log) ==
    IF log = <<>> THEN <<>>
    ELSE (IF Head(log).method = "apply_changes" THEN <<Head(log).path>> ELSE <<>>)
             \o AppliedPaths(Tail(log))

====
